---- MODULE Spec2Model ----
(***************************************************************************)
(* A model of Ward's scan pipeline (internal/orchestrator), its baseline   *)
(* (internal/baseline) and the value types they work on (internal/models). *)
(*                                                                         *)
(* Go strings on which the code does character work (lower-casing, prefix  *)
(* tests, concatenation with separators) are sequences of one-character    *)
(* strings; strings that are only carried along are TLA+ strings.          *)
(***************************************************************************)
EXTENDS Integers, Sequences, FiniteSets, TLC

(***************************************************************************)
(* Bounds of the model.                                                    *)
(***************************************************************************)
\* findings the scanners of one run return in total
MaxFindings == 2
\* recoverable failures (rule load, resolver, scanner, reporter, history
\* store, baseline save) the environment injects into one run
MaxFaults == 2
\* length of the finding list handed to the baseline round trip
MaxBaselineLen == 3
\* the handlers registered on a bus, the events published on it and the
\* calls of its Close
MaxHandlers == 3
MaxPublishes == 2
MaxCloses == 2
\* the queries of one batch request of the dependency scanner (the source
\* sends 100; the model sends fewer, so that a scan has several batches)
batchSize == 2
\* the rules the YAML files define
MaxRules == 2
\* the configured git depths run from -MaxGitDepth to MaxGitDepth
MaxGitDepth == 2
\* the entries of output.formats
MaxFormats == 3
\* the instants at which a scan completes
MaxTime == 4
\* the findings of the report the scan command looks at
MaxReportFindings == 2
\* the patterns of a rule
MaxPatterns == 2
\* the assignments of .env.example
MaxEnvLines == 2

(***************************************************************************)
(* strings                                                                 *)
(***************************************************************************)
UpperLetters ==
  <<"A","B","C","D","E","F","G","H","I","J","K","L","M",
    "N","O","P","Q","R","S","T","U","V","W","X","Y","Z">>

LowerLetters ==
  <<"a","b","c","d","e","f","g","h","i","j","k","l","m",
    "n","o","p","q","r","s","t","u","v","w","x","y","z">>

\* unicode.ToLower on one character
LowerChar(c) ==
  IF \E i \in 1..26 : UpperLetters[i] = c
    THEN LowerLetters[CHOOSE i \in 1..26 : UpperLetters[i] = c]
    ELSE c

\* strings.ToLower
ToLower(s) == [i \in 1..Len(s) |-> LowerChar(s[i])]

\* strings.HasPrefix
HasPrefix(s, p) == Len(s) >= Len(p) /\ SubSeq(s, 1, Len(p)) = p

\* strings.HasSuffix
HasSuffix(s, p) ==
  Len(s) >= Len(p) /\ SubSeq(s, Len(s) - Len(p) + 1, Len(s)) = p

Digits == <<"0","1","2","3","4","5","6","7","8","9">>

\* fmt.Sprintf("%d", n) for n >= 0
RECURSIVE FmtInt(_)
FmtInt(n) ==
  IF n < 10 THEN <<Digits[n + 1]>>
  ELSE FmtInt(n \div 10) \o <<Digits[(n % 10) + 1]>>

\* membership in a Go slice
InSeq(x, s) == \E i \in 1..Len(s) : s[i] = x

(***************************************************************************)
(* models: Severity                                                        *)
(***************************************************************************)
SeverityInfo == 0
SeverityLow == 1
SeverityMedium == 2
SeverityHigh == 3
SeverityCritical == 4

AllSeverities ==
  <<SeverityInfo, SeverityLow, SeverityMedium, SeverityHigh, SeverityCritical>>

\* Severity.String
SeverityString(s) ==
  CASE s = SeverityInfo -> <<"I","n","f","o">>
    [] s = SeverityLow -> <<"L","o","w">>
    [] s = SeverityMedium -> <<"M","e","d","i","u","m">>
    [] s = SeverityHigh -> <<"H","i","g","h">>
    [] s = SeverityCritical -> <<"C","r","i","t","i","c","a","l">>
    [] OTHER -> <<"U","n","k","n","o","w","n">>

\* ParseSeverity
ParseSeverity(s) ==
  CASE ToLower(s) = <<"c","r","i","t","i","c","a","l">> -> SeverityCritical
    [] ToLower(s) = <<"h","i","g","h">> -> SeverityHigh
    [] ToLower(s) = <<"m","e","d","i","u","m">> -> SeverityMedium
    [] ToLower(s) = <<"l","o","w">> -> SeverityLow
    [] OTHER -> SeverityInfo

(***************************************************************************)
(* models: Finding.  A finding is a record of ID, File, Line, Severity,    *)
(* Title and Scanner; Description, Category, CodeSnippet, Remediation and  *)
(* References are carried by the code and read by none of the operations   *)
(* modelled here, Title stands for them.                                   *)
(***************************************************************************)
\* the zero Finding
NoFinding ==
  [ID |-> <<>>, File |-> <<>>, Line |-> 0, Severity |-> SeverityInfo,
   Title |-> "", Scanner |-> <<>>]

\* the text, were the title a part of it
FingerprintInputWithTitle(f) ==
  f.ID \o <<":">> \o f.File \o <<":">> \o FmtInt(f.Line) \o <<":", f.Title>>

\* the text Fingerprint hashes: fmt.Sprintf("%s:%s:%d", f.ID, f.File, f.Line)
FingerprintInput(f) == f.ID \o <<":">> \o f.File \o <<":">> \o FmtInt(f.Line)

\* Finding.Fingerprint: the first 12 bytes of the SHA-256 of the text, in hex.
\* The hash is taken to be collision free: a digest is represented by the
\* text it was computed from.
Fingerprint(f) == [sha256 |-> FingerprintInput(f)]

(***************************************************************************)
(* models: PipelineStage, ProjectContext, ScanReport                       *)
(***************************************************************************)
StageProvider == "Provider"
StageResolvers == "Resolvers"
StageScanners == "Scanners"
StagePostProcess == "Post-Process"
StageReport == "Report"

AllStages ==
  <<StageProvider, StageResolvers, StageScanners, StagePostProcess, StageReport>>

\* &models.ProjectContext{}: what the resolvers have not filled in is empty
EmptyContext == [ProjectName |-> "", InstalledPackages |-> {}]

\* the report before it is built
NoReport ==
  [built |-> FALSE, ProjectContext |-> EmptyContext, Findings |-> <<>>,
   ScannersRun |-> <<>>, ScannerErrors |-> <<>>]

(***************************************************************************)
(* baseline                                                                *)
(***************************************************************************)
\* the *Baseline that is nil
NoBaseline == [attached |-> FALSE, Entries |-> <<>>, fingerprints |-> {}]

\* the baseline file that does not exist
NoFile == [exists |-> FALSE, version |-> "", entries |-> <<>>]

\* Entry built by Save from one finding
EntryOf(f) ==
  [fingerprint |-> Fingerprint(f), id |-> f.ID, file |-> f.File,
   line |-> f.Line, title |-> f.Title, severity |-> SeverityString(f.Severity)]

\* baseline.Save, when the file can be written: the JSON document holds the
\* exported fields only (the fingerprints lookup is not serialized)
BaselineSave(findings) ==
  [exists |-> TRUE, version |-> "1.0",
   entries |-> [i \in 1..Len(findings) |-> EntryOf(findings[i])]]

EntryFingerprints(entries) == {entries[i].fingerprint : i \in 1..Len(entries)}

\* Load, were it to leave the lookup empty
BaselineLoadNoLookup(file) ==
  [attached |-> TRUE, Entries |-> file.entries, fingerprints |-> {}]

\* baseline.Load of an existing, well-formed file: the entries as written and
\* the lookup rebuilt from their fingerprint fields
BaselineLoad(file) ==
  [attached |-> TRUE, Entries |-> file.entries,
   fingerprints |-> EntryFingerprints(file.entries)]

\* IsBaselined, were it to compare rule identifiers instead of fingerprints
IsBaselinedByID(b, f) ==
  IF ~b.attached THEN FALSE
  ELSE \E i \in 1..Len(b.Entries) : b.Entries[i].id = f.ID

\* Baseline.IsBaselined
IsBaselined(b, f) ==
  IF ~b.attached THEN FALSE ELSE Fingerprint(f) \in b.fingerprints

RECURSIVE FilterFrom(_, _, _)
FilterFrom(b, findings, i) ==
  IF i > Len(findings) THEN [filtered |-> <<>>, suppressed |-> 0]
  ELSE LET rest == FilterFrom(b, findings, i + 1)
       IN  IF IsBaselined(b, findings[i])
             THEN [rest EXCEPT !.suppressed = @ + 1]
             ELSE [rest EXCEPT !.filtered = <<findings[i]>> \o @]

\* Baseline.Filter: the findings kept and the number suppressed; a nil
\* baseline returns the list as it is
BaselineFilter(b, findings) ==
  IF ~b.attached
    THEN [filtered |-> findings, suppressed |-> 0]
    ELSE FilterFrom(b, findings, 1)

(***************************************************************************)
(* orchestrator: the pure helpers of Run                                   *)
(***************************************************************************)
\* the key, were the title a part of it
DedupKeyWithTitle(f) ==
  f.ID \o <<"|">> \o f.File \o <<"|">> \o FmtInt(f.Line) \o <<"|", f.Title>>

\* the key deduplicate builds: f.ID + "|" + f.File + "|" + Sprintf("%d", f.Line)
DedupKey(f) == f.ID \o <<"|">> \o f.File \o <<"|">> \o FmtInt(f.Line)

RECURSIVE DedupFrom(_, _, _)
DedupFrom(findings, i, seen) ==
  IF i > Len(findings) THEN <<>>
  ELSE IF DedupKey(findings[i]) \in seen
    THEN DedupFrom(findings, i + 1, seen)
    ELSE <<findings[i]>>
           \o DedupFrom(findings, i + 1, seen \cup {DedupKey(findings[i])})

\* deduplicate
deduplicate(findings) == DedupFrom(findings, 1, {})

\* filterBySeverity, were the comparison strict
filterBySeverityStrict(findings, minSeverity) ==
  IF minSeverity = SeverityInfo THEN findings
  ELSE SelectSeq(findings, LAMBDA f : f.Severity > minSeverity)

\* filterBySeverity
filterBySeverity(findings, minSeverity) ==
  IF minSeverity = SeverityInfo THEN findings
  ELSE SelectSeq(findings, LAMBDA f : f.Severity >= minSeverity)

\* Orchestrator.isScannerDisabled: an exact match in cfg.Scanners.Disable
isScannerDisabled(disable, name) == InSeq(name, disable)

\* the decision filterScanners takes for one scanner
ScannerVerdict(enable, disable, name) ==
  LET enableSet == {ToLower(enable[i]) : i \in 1..Len(enable)}
      disableSet == {ToLower(disable[i]) : i \in 1..Len(disable)}
  IN  IF Len(enable) = 0 /\ Len(disable) = 0 THEN "keep"
      ELSE IF enableSet # {} /\ ToLower(name) \notin enableSet THEN "not-enabled"
      ELSE IF ToLower(name) \in disableSet THEN "disabled"
      ELSE "keep"

\* filterScanners, were the disable list compared without folding case
filterScannersExactDisable(enable, disable, scanners) ==
  SelectSeq(scanners, LAMBDA n :
    /\ ScannerVerdict(enable, <<>>, n) = "keep"
    /\ ~InSeq(n, disable))

\* Orchestrator.filterScanners: the scanners kept, in order
filterScanners(enable, disable, scanners) ==
  SelectSeq(scanners, LAMBDA n : ScannerVerdict(enable, disable, n) = "keep")

\* Orchestrator.buildReporters: the formats of the reporters built, in order
RECURSIVE ReportersFrom(_, _, _)
ReportersFrom(formats, i, seen) ==
  IF i > Len(formats) THEN <<>>
  ELSE IF formats[i] \in seen THEN ReportersFrom(formats, i + 1, seen)
  ELSE (CASE formats[i] = "json" -> <<"json">>
          [] formats[i] = "sarif" -> <<"sarif">>
          [] formats[i] = "html" -> <<"html">>
          [] formats[i] \in {"markdown", "md"} -> <<"markdown">>
          [] OTHER -> <<>>)
         \o ReportersFrom(formats, i + 1, seen \cup {formats[i]})

\* buildReporters, were it not to add the JSON reporter by itself
buildReportersAsListed(cfgFormats) ==
  LET formats == IF Len(cfgFormats) = 0 THEN <<"json">> ELSE cfgFormats
  IN  ReportersFrom(formats, 1, {})

buildReporters(cfgFormats) ==
  LET formats == IF Len(cfgFormats) = 0 THEN <<"json">> ELSE cfgFormats
  IN  ReportersFrom(formats, 1, {})
        \o (IF InSeq("json", formats) THEN <<>> ELSE <<"json">>)

\* provider.IsGitURL
IsGitURL(path) ==
  \/ HasPrefix(path, <<"h","t","t","p",":","/","/">>)
  \/ HasPrefix(path, <<"h","t","t","p","s",":","/","/">>)
  \/ HasPrefix(path, <<"g","i","t","@">>)
  \/ HasPrefix(path, <<"s","s","h",":","/","/">>)
  \/ HasSuffix(path, <<".","g","i","t">>)

(***************************************************************************)
(* eventbus: the events Run publishes.  Every event is a record of the     *)
(* same shape; a field an event type does not carry holds its zero value.  *)
(***************************************************************************)
NewEvent(type) ==
  [type |-> type, stage |-> "", name |-> <<>>, finding |-> NoFinding,
   count |-> 0, level |-> "", msg |-> "", report |-> NoReport]

LogMessage(level, msg) ==
  [NewEvent("LogMessage") EXCEPT !.level = level, !.msg = msg]

StageStartedEv(stage) == [NewEvent("StageStarted") EXCEPT !.stage = stage]

\* stageComplete, were it to publish the event of stageStart
StageCompletedAsStarted(stage) == [NewEvent("StageStarted") EXCEPT !.stage = stage]

StageCompletedEv(stage) == [NewEvent("StageCompleted") EXCEPT !.stage = stage]

ScannerEv(type, name) == [NewEvent(type) EXCEPT !.name = name]

ScanStartedEv(scannerCount) ==
  [NewEvent("ScanStarted") EXCEPT !.count = scannerCount]

ScanCompletedEv(rep) == [NewEvent("ScanCompleted") EXCEPT !.report = rep]

ScanFailedEv(err) == [NewEvent("ScanFailed") EXCEPT !.msg = err]

FindingDiscoveredEv(f) == [NewEvent("FindingDiscovered") EXCEPT !.finding = f]

ScannerCompletedEv(name, findingCount) ==
  [NewEvent("ScannerCompleted") EXCEPT !.name = name, !.count = findingCount]

ScannerFailedEv(name, err) ==
  [NewEvent("ScannerFailed") EXCEPT !.name = name, !.msg = err]

(***************************************************************************)
(* The scanners, the resolvers and what they can find.                     *)
(***************************************************************************)
EnvScanner == <<"e","n","v","-","s","c","a","n","n","e","r">>
ConfigScanner == <<"c","o","n","f","i","g","-","s","c","a","n","n","e","r">>
DependencyScanner ==
  <<"d","e","p","e","n","d","e","n","c","y","-","s","c","a","n","n","e","r">>
RulesScanner == <<"r","u","l","e","s","-","s","c","a","n","n","e","r">>

\* the scanners Run always builds, in order
FixedScanners == <<EnvScanner, ConfigScanner, DependencyScanner>>

\* the resolvers Run builds, in order
Resolvers == <<"framework", "packages">>

\* ENV-002 of the env scanner
EnvFinding ==
  [ID |-> <<"E","N","V","-","0","0","2">>, File |-> <<".","e","n","v">>,
   Line |-> 2, Severity |-> SeverityHigh, Title |-> "APP_DEBUG is enabled",
   Scanner |-> EnvScanner]

\* CFG-001 of the config scanner
ConfigFinding ==
  [ID |-> <<"C","F","G","-","0","0","1">>,
   File |-> <<"c","o","n","f","i","g","/","a","p","p",".","p","h","p">>,
   Line |-> 5, Severity |-> SeverityHigh, Title |-> "Debug mode hardcoded",
   Scanner |-> ConfigScanner]

\* an advisory of the dependency scanner, of the default severity
DependencyFinding ==
  [ID |-> <<"C","V","E","-","1">>,
   File |-> <<"c","o","m","p","o","s","e","r",".","l","o","c","k">>,
   Line |-> 0, Severity |-> SeverityMedium, Title |-> "advisory",
   Scanner |-> DependencyScanner]

\* What user-written rules can find: rule ids and file names are free text.
\* The first two agree on (ID, File, Line) and differ in the rest; the last
\* two differ in ID and File and agree on ID + "|" + File.
RuleFindings ==
  { [ID |-> <<"a">>, File |-> <<"b">>, Line |-> 1, Severity |-> SeverityHigh,
     Title |-> "x", Scanner |-> RulesScanner],
    [ID |-> <<"a">>, File |-> <<"b">>, Line |-> 1, Severity |-> SeverityLow,
     Title |-> "y", Scanner |-> RulesScanner],
    [ID |-> <<"a","|","b">>, File |-> <<"c">>, Line |-> 0,
     Severity |-> SeverityCritical, Title |-> "x", Scanner |-> RulesScanner],
    [ID |-> <<"a">>, File |-> <<"b","|","c">>, Line |-> 0,
     Severity |-> SeverityInfo, Title |-> "x", Scanner |-> RulesScanner] }

\* the installed version of each package composer.lock can name
InstalledVersion ==
  [p \in {"laravel/framework", "guzzlehttp/guzzle", "acme/tool", "acme/wip",
          "acme/none"} |->
     CASE p = "laravel/framework" -> <<"v", "1", "0">>
       [] p = "guzzlehttp/guzzle" -> <<"7">>
       [] p = "acme/tool" -> <<"v", "V", "2">>
       [] p = "acme/none" -> <<"v">>
       [] OTHER -> <<"d", "e", "v", "-", "m", "a", "i", "n">>]

\* what the lock file can resolve to
PackageSets == { {}, DOMAIN InstalledVersion }

(***************************************************************************)
(* The inputs of a run.                                                    *)
(***************************************************************************)
\* cfg.Severity: unset, and the four other levels in mixed case
SeverityStrings ==
  { <<>>, <<"l","o","w">>, <<"M","e","d","i","u","m">>, <<"H","I","G","H">>,
    <<"c","r","i","t","i","c","a","l">> }

\* cfg.Scanners.Enable and cfg.Scanners.Disable
ScannerLists ==
  { [Enable |-> <<>>, Disable |-> <<>>],
    [Enable |-> <<<<"E","N","V","-","s","c","a","n","n","e","r">>, RulesScanner>>,
     Disable |-> <<>>],
    [Enable |-> <<>>, Disable |-> <<DependencyScanner>>] }

\* cfg.Output.Formats
FormatLists == { <<>>, <<"sarif", "terminal", "sarif">> }

\* the target of the scan: a local directory, a repository to clone
Targets == { <<"/","a","p","p">>, <<"a",".","g","i","t">> }

\* the baseline given with --baseline: none, or one loaded from the file an
\* earlier run saved
Baselines ==
  { NoBaseline,
    BaselineLoad(BaselineSave(
      << [ID |-> <<"a">>, File |-> <<"b">>, Line |-> 1,
          Severity |-> SeverityHigh, Title |-> "x", Scanner |-> RulesScanner],
         EnvFinding >>)) }

\* the path given with --update-baseline
BaselinePaths == { "", ".ward-baseline.json" }

(***************************************************************************)
(* The state of one execution of Orchestrator.Run.                         *)
(***************************************************************************)
VARIABLES
  cfg,            \* o.cfg: Severity, Scanners.Enable/Disable, Output.Formats
  target,         \* o.target
  baseline,       \* o.baseline
  baselinePath,   \* o.baselinePath
  ctxCancelled,   \* whether the ctx passed to Run is done
  acquired,       \* how Acquire returned: "pending", "ok" or "error"
  pc,             \* the call Run is waiting in, or "start", or "done"
  idx,            \* the position of the loop Run is in
  scanners,       \* the roster after filterScanners
  projectCtx,     \* pc, the *models.ProjectContext
  found,          \* the findings of the running scanner so far
  allFindings,    \* allFindings
  scanned,        \* history: allFindings as the scanner loop left it
  scannersRun,    \* scannersRun
  scannerErrors,  \* scannerErrors
  reporters,      \* the reporters of buildReporters
  report,         \* the report Run builds
  events,         \* the events Run has published on the bus, in order
  result,         \* what Run returned: "running", "nil" or "error"
  faults,         \* the recoverable failures injected so far
  tempDir,        \* the git provider's temporary directory
  baselineFile,   \* the file at baselinePath
  historySaved,   \* whether store.Save has written this scan's record
  \* the state of a baseline round trip (Save, Load, Filter)
  rtPc,           \* the next step: "save", "load", "filter", or "done", "failed"
  rtFindings,     \* the findings the baseline is saved from and filtered on
  rtFile,         \* the baseline file
  rtBaseline,     \* the *Baseline that Load returned
  rtFiltered,     \* the findings Filter returned
  rtSuppressed,   \* the count Filter returned
  \* a finding whose attributes are edited between two scans
  fpPc,           \* "idle", or "edited" since the last look, or "looked"
  fpFinding,      \* the finding
  fpBaseline,     \* the baseline it is looked up in
  fpFirst,        \* its fingerprint and IsBaselined before any edit
  fpLast,         \* its fingerprint and IsBaselined as last computed
  \* an EventBus used by several goroutines
  subscribers,    \* b.subscribers: per event type, the handlers in order
  allHandlers,    \* b.allHandlers
  closed,         \* b.closed
  muReaders,      \* b.mu: the goroutines holding the read lock
  muWriter,       \* b.mu: the goroutine holding the write lock, or 0
  muPending,      \* b.mu: the goroutines blocked in Lock
  busGo,          \* per goroutine: the call it is in and its position there
  busCalls,       \* the calls of Subscribe/SubscribeAll, Publish, Close so far
  busCloses,      \* the calls of Close that have returned
  busLog,         \* the handler invocations, in order
  \* the Scan of the dependency scanner
  depOrder,       \* packageOrder: the packages queried, in query order
  depAt,          \* the position of the batch loop or of the detail loop
  depAffected,    \* affected: the packages batchQuery returns
  depRequests,    \* the requests sent to the advisory service, in order
  \* the building of the scanner roster at the start of Run
  rosterPc,       \* the next step: "load", "build", "filter", or "done"
  ruleFiles,      \* the rules the YAML files of the rules directories define
  rulesCfg,       \* cfg.Rules: Disable and Override
  scannersCfg,    \* cfg.Scanners: Enable and Disable
  customRules,    \* what LoadAllRules returned: the rules and whether it failed
  rosterBuilt,    \* the scanners before filterScanners
  rosterScanners, \* the scanners after filterScanners
  \* the git provider
  gitPc,          \* the next step: "new", "Acquire", "clone", "Cleanup", "done"
  gitDepthCfg,    \* cfg.Providers.GitDepth
  gitRepo,        \* what the remote repository holds
  gitDepth,       \* GitProvider.Depth
  gitTempDir,     \* GitProvider.tempDir
  gitDir,         \* the directory on disk: "none", "exists" or "removed"
  gitArgs,        \* the arguments of the git command
  gitResult,      \* what Acquire returned
  \* the reporters of the Report stage
  repPc,          \* the next step: "build", "Generate", "done"
  repFormats,     \* cfg.Output.Formats
  repReporters,   \* what buildReporters returned
  repIdx,         \* the position of the range loop over the reporters
  repGenerated,   \* the Generate calls made: the reporter and whether it failed
  \* the scan history in ~/.ward/store
  stPc,           \* the next step: "report", "CompareLast", "Save"
  store,          \* the records of the files, in directory order
  stReport,       \* the report of the scan under way
  stDiff,         \* what CompareLast returned
  stErr,          \* whether CompareLast returned an error
  stLogged,       \* whether Run logged "vs last scan" for the scan under way
  \* the scan command
  cmdPc,          \* the command's goroutine: "start", "Run", "check", "exited"
  orchPc,         \* the goroutine of Run: "idle", "running", "Send", "store", "returned"
  cmdMode,        \* "headless" or "tui"
  failOn,         \* the --fail-on flag
  cmdFindings,    \* the findings of the report Run builds
  runErr,         \* whether Run returned an error
  delivered,      \* whether the bridge has sent ScanCompleted to the TUI
  finalReport,    \* the report the ScanCompleted subscriber captured
  exitCode,       \* the exit code of the process
  exitWhy,        \* "", "findings" or "fatal"
  cmdTerminal,    \* the ScanCompleted and ScanFailed events published on
                  \* the bus of the command, by type, in order
  \* the rules scanner
  rsPc,           \* the next step: "Scan", "rule", "return", "done"
  rsRules,        \* Scanner.rules
  rsProject,      \* the files under the root: path |-> lines, or absent
  rsRule,         \* the position of the loop over the rules
  rsLog,          \* per pattern evaluated: rule, pattern, the findings it gave
  rsFindings,     \* the findings of Scan so far
  rsEmitted,      \* the findings passed to emit, in order
  rsResult,       \* what Scan returned
  \* the env scanner's check of .env.example
  exPc,           \* the next step: "checkEnvExample", "key", "done"
  exFile,         \* .env.example: whether it can be read, and its lines
  exVars,         \* vars, the map readEnvFile returned
  exKey,          \* the position of the loop over sensitiveKeys
  exFindings,     \* findings
  \* two scans of one project, the first saving a baseline the second loads
  twPc,           \* the next step: "loadA", "runA", "saveA", "loadB", "runB", "done"
  twFile,         \* the baseline file at the path given with --update-baseline
  twFlag,         \* --baseline of the first scan: "", that path, another file
  twSeverity,     \* cfg.Severity of both scans
  twScanned,      \* what the scanners return in both scans
  twBaselineA,    \* o.baseline of the first scan
  twReportA,      \* report.Findings of the first scan
  twBaselineB,    \* o.baseline of the second scan
  twReportB       \* report.Findings of the second scan

inputVars == <<cfg, target, baseline, baselinePath>>

loopVars ==
  <<found, allFindings, scanned, scannersRun, scannerErrors, reporters, report>>

exitVars == <<result, tempDir, baselineFile>>

runVars ==
  <<cfg, target, baseline, baselinePath, ctxCancelled, acquired, pc, idx,
    scanners, projectCtx, found, allFindings, scanned, scannersRun,
    scannerErrors, reporters, report, events, result, faults, tempDir,
    baselineFile, historySaved>>

rtVars == <<rtPc, rtFindings, rtFile, rtBaseline, rtFiltered, rtSuppressed>>

fpVars == <<fpPc, fpFinding, fpBaseline, fpFirst, fpLast>>

\* the variables outside Run and the baseline round trip
busVars ==
  <<subscribers, allHandlers, closed, muReaders, muWriter, muPending, busGo,
    busCalls, busCloses, busLog>>

depVars == <<depOrder, depAt, depAffected, depRequests>>

rosterVars ==
  <<rosterPc, ruleFiles, rulesCfg, scannersCfg, customRules, rosterBuilt, rosterScanners>>

gitVars ==
  <<gitPc, gitDepthCfg, gitRepo, gitDepth, gitTempDir, gitDir, gitArgs, gitResult>>

reportVars == <<repPc, repFormats, repReporters, repIdx, repGenerated>>

storeVars == <<stPc, store, stReport, stDiff, stErr, stLogged>>

cmdVars ==
  <<cmdPc, orchPc, cmdMode, failOn, cmdFindings, runErr, delivered, finalReport,
    exitCode, exitWhy, cmdTerminal>>

rulesVars ==
  <<rsPc, rsRules, rsProject, rsRule, rsLog, rsFindings, rsEmitted, rsResult>>

exampleVars == <<exPc, exFile, exVars, exKey, exFindings>>

twoVars ==
  <<twPc, twFile, twFlag, twSeverity, twScanned, twBaselineA, twReportA,
    twBaselineB, twReportB>>

sideVars == <<fpVars, busVars, depVars, rosterVars, gitVars, reportVars, storeVars, cmdVars, rulesVars, exampleVars, twoVars>>

vars == <<runVars, rtVars, sideVars>>

\* no baseline round trip is under way
RtIdle ==
  /\ rtPc = "idle"
  /\ rtFindings = <<>>
  /\ rtFile = NoFile
  /\ rtBaseline = NoBaseline
  /\ rtFiltered = <<>>
  /\ rtSuppressed = 0

\* what Fingerprint and IsBaselined return for a finding
Looked(b, f) == [fingerprint |-> Fingerprint(f), baselined |-> IsBaselined(b, f)]

\* no finding is being edited
FpIdle ==
  /\ fpPc = "idle"
  /\ fpFinding = NoFinding
  /\ fpBaseline = NoBaseline
  /\ fpFirst = Looked(NoBaseline, NoFinding)
  /\ fpLast = Looked(NoBaseline, NoFinding)

\* nothing happens outside Run and the baseline round trip
\* the goroutines that use the bus
Goroutines == {1, 2}

\* the event types published and subscribed to
EventTypes == {"ScanStarted", "LogMessage"}

\* a goroutine that is in no call of the bus
IdleGoroutine ==
  [pc |-> "idle", op |-> "", type |-> "", id |-> 0, i |-> 0,
   afterClose |-> FALSE,
   \* a call a handler makes from inside a loop of Publish: the call, its
   \* event type, its handler, and the loop it is made from
   inner |-> "", innerType |-> "", innerId |-> 0, ret |-> ""]

\* eventbus.New, no call made yet
BusNew ==
  /\ subscribers = [t \in EventTypes |-> <<>>]
  /\ allHandlers = <<>>
  /\ closed = FALSE
  /\ muReaders = {}
  /\ muWriter = 0
  /\ muPending = {}
  /\ busGo = [g \in Goroutines |-> IdleGoroutine]
  /\ busCalls = [subscribe |-> 0, publish |-> 0, close |-> 0]
  /\ busCloses = 0
  /\ busLog = <<>>

\* the dependency scanner is not inside Scan
DepIdle ==
  /\ depOrder = <<>>
  /\ depAt = 0
  /\ depAffected = <<>>
  /\ depRequests = <<>>

\* LoadAllRules has not returned
NotLoaded == [failed |-> FALSE, rules |-> <<>>]

\* no roster is being built
RosterIdle ==
  /\ rosterPc = "idle"
  /\ ruleFiles = <<>>
  /\ rulesCfg = [Disable |-> <<>>, Override |-> <<>>]
  /\ scannersCfg = [Enable |-> <<>>, Disable |-> <<>>]
  /\ customRules = NotLoaded
  /\ rosterBuilt = <<>>
  /\ rosterScanners = <<>>

\* Acquire has not returned
NoSourceResult == [err |-> "", RootPath |-> <<>>, IsLaravel |-> FALSE, HasGit |-> FALSE]

\* no git provider is in use
GitIdle ==
  /\ gitPc = "idle"
  /\ gitDepthCfg = 0
  /\ gitRepo = [artisan |-> FALSE, composer |-> "missing"]
  /\ gitDepth = 0
  /\ gitTempDir = <<>>
  /\ gitDir = "none"
  /\ gitArgs = <<>>
  /\ gitResult = NoSourceResult

\* no reporters are being built
ReportIdle ==
  /\ repPc = "idle"
  /\ repFormats = <<>>
  /\ repReporters = <<>>
  /\ repIdx = 0
  /\ repGenerated = <<>>

\* the nil *Diff
NoDiff ==
  [nil |-> TRUE, NewFindings |-> <<>>, ResolvedFindings |-> <<>>,
   TotalBefore |-> 0, TotalAfter |-> 0]

\* the report of no scan
NoStoreReport ==
  [RootPath |-> "", ProjectName |-> <<>>, CompletedAt |-> 0, Findings |-> <<>>]

\* the scan history is not in use
StoreIdle ==
  /\ stPc = "idle"
  /\ store = <<>>
  /\ stReport = NoStoreReport
  /\ stDiff = NoDiff
  /\ stErr = FALSE
  /\ stLogged = FALSE

\* the nil *ScanReport
NilReport == [nil |-> TRUE, Findings |-> <<>>]

\* no scan command is running
CmdIdle ==
  /\ cmdPc = "idle"
  /\ orchPc = "idle"
  /\ cmdMode = ""
  /\ failOn = <<>>
  /\ cmdFindings = <<>>
  /\ runErr = FALSE
  /\ delivered = FALSE
  /\ finalReport = NilReport
  /\ exitCode = 0
  /\ exitWhy = ""
  /\ cmdTerminal = <<>>

\* Scan has not returned
NoScanResult == [returned |-> FALSE, err |-> "", findings |-> <<>>]

\* the rules scanner is not in use
RulesIdle ==
  /\ rsPc = "idle"
  /\ rsRules = <<>>
  /\ rsProject = <<>>
  /\ rsRule = 0
  /\ rsLog = <<>>
  /\ rsFindings = <<>>
  /\ rsEmitted = <<>>
  /\ rsResult = NoScanResult

\* the empty map
NoVars == [k \in {} |-> <<>>]

\* the env scanner's check of .env.example is not in use
ExampleIdle ==
  /\ exPc = "idle"
  /\ exFile = [readable |-> FALSE, lines |-> <<>>]
  /\ exVars = NoVars
  /\ exKey = 0
  /\ exFindings = <<>>

\* no pair of scans is under way
TwoIdle ==
  /\ twPc = "idle"
  /\ twFile = NoFile
  /\ twFlag = ""
  /\ twSeverity = <<>>
  /\ twScanned = <<>>
  /\ twBaselineA = NoBaseline
  /\ twReportA = <<>>
  /\ twBaselineB = NoBaseline
  /\ twReportB = <<>>

SideIdle == FpIdle /\ BusNew /\ DepIdle /\ RosterIdle /\ GitIdle /\ ReportIdle /\ StoreIdle /\ CmdIdle /\ RulesIdle /\ ExampleIdle /\ TwoIdle

\* no run is under way
RunIdle ==
  /\ cfg = [Severity |-> <<>>, Enable |-> <<>>, Disable |-> <<>>,
            Formats |-> <<>>]
  /\ target = <<>>
  /\ baseline = NoBaseline
  /\ baselinePath = ""
  /\ ctxCancelled = FALSE
  /\ acquired = "pending"
  /\ pc = "idle"
  /\ idx = 0
  /\ scanners = <<>>
  /\ projectCtx = EmptyContext
  /\ found = <<>>
  /\ allFindings = <<>>
  /\ scanned = <<>>
  /\ scannersRun = <<>>
  /\ scannerErrors = <<>>
  /\ reporters = <<>>
  /\ report = NoReport
  /\ events = <<>>
  /\ result = "running"
  /\ faults = 0
  /\ tempDir = "none"
  /\ baselineFile = NoFile
  /\ historySaved = FALSE

\* the inputs at their defaults: a local directory, nothing configured
DefaultInput ==
  [Severity |-> <<>>, Enable |-> <<>>, Disable |-> <<>>, Formats |-> <<>>,
   target |-> <<"/","a","p","p">>, baseline |-> NoBaseline, baselinePath |-> ""]

\* The inputs Run is started with.  Inputs that are read by the same part of
\* Run are combined with each other, the others being at their defaults: the
\* scanner lists with the target (roster and provider), the formats with the
\* baseline path (Report stage), the minimum severity with the baseline
\* (Post-Process).
Inputs ==
  { [DefaultInput EXCEPT !.Enable = l.Enable, !.Disable = l.Disable,
                         !.target = t] :
    l \in ScannerLists, t \in Targets }
  \cup
  { [DefaultInput EXCEPT !.Formats = f, !.baselinePath = p] :
    f \in FormatLists, p \in BaselinePaths }
  \cup
  { [DefaultInput EXCEPT !.Severity = s, !.baseline = b] :
    s \in SeverityStrings, b \in Baselines }

\* Run is entered with one of the given inputs
InitFrom(inputs) ==
  /\ \E in \in inputs :
       /\ cfg = [Severity |-> in.Severity, Enable |-> in.Enable,
                 Disable |-> in.Disable, Formats |-> in.Formats]
       /\ target = in.target
       /\ baseline = in.baseline
       /\ baselinePath = in.baselinePath
  /\ ctxCancelled = FALSE
  /\ acquired = "pending"
  /\ pc = "start"
  /\ idx = 0
  /\ scanners = <<>>
  /\ projectCtx = EmptyContext
  /\ found = <<>>
  /\ allFindings = <<>>
  /\ scanned = <<>>
  /\ scannersRun = <<>>
  /\ scannerErrors = <<>>
  /\ reporters = <<>>
  /\ report = NoReport
  /\ events = <<>>
  /\ result = "running"
  /\ faults = 0
  /\ tempDir = "none"
  /\ baselineFile = NoFile
  /\ historySaved = FALSE
  /\ RtIdle
  /\ SideIdle

Init == InitFrom(Inputs)

\* an injected failure is within the bound and is counted
Fault(failed) ==
  /\ failed => faults < MaxFaults
  /\ faults' = IF failed THEN faults + 1 ELSE faults

(***************************************************************************)
(* Run, cut at the calls it blocks in.  Each action is the return of one   *)
(* call together with the code Run executes up to the next call.           *)
(***************************************************************************)

\* the log events of filterScanners, in order
RECURSIVE FilterLogs(_, _, _, _)
FilterLogs(enable, disable, built, i) ==
  IF i > Len(built) THEN <<>>
  ELSE (CASE ScannerVerdict(enable, disable, built[i]) = "not-enabled" ->
               <<LogMessage("info", "Skipping (not in enable list)")>>
          [] ScannerVerdict(enable, disable, built[i]) = "disabled" ->
               <<LogMessage("info", "Skipping (disabled)")>>
          [] OTHER -> <<>>)
         \o FilterLogs(enable, disable, built, i + 1)

\* Run from its entry to the call of Acquire: the rules are loaded, the
\* roster is built and filtered, ScanStarted and the Provider stage open
Begin ==
  /\ pc = "start"
  /\ \E rules \in {"error", "none", "some"} :
       LET built == FixedScanners
                      \o (IF rules = "some" THEN <<RulesScanner>> ELSE <<>>)
           roster == filterScanners(cfg.Enable, cfg.Disable, built)
       IN  /\ Fault(rules = "error")
           /\ scanners' = roster
           /\ events' =
                (CASE rules = "error" ->
                        <<LogMessage("warn", "Failed to load custom rules")>>
                   [] rules = "some" ->
                        <<LogMessage("info", "Loaded custom rule(s)")>>
                   [] OTHER -> <<>>)
                \o FilterLogs(cfg.Enable, cfg.Disable, built, 1)
                \o <<ScanStartedEv(Len(roster)), StageStartedEv(StageProvider)>>
                \o (IF IsGitURL(target)
                      THEN <<LogMessage("info", "Cloning ...")>> ELSE <<>>)
  /\ pc' = "Acquire"
  /\ UNCHANGED <<sideVars, rtVars, inputVars, acquired, ctxCancelled, idx, projectCtx, loopVars, exitVars,
                 historySaved>>

\* fail, were it to return the error without publishing it
failUnpublished(err) ==
  /\ events' = events
  /\ result' = "error"
  /\ pc' = "done"

\* Orchestrator.fail
fail(err) ==
  /\ events' = Append(events, ScanFailedEv(err))
  /\ result' = "error"
  /\ pc' = "done"

\* Acquire fails: the local path is no directory; the git provider cannot
\* create its directory, or has created it and the clone fails, as it does
\* when ctx is done (exec.CommandContext), and Acquire removes the directory
AcquireFails ==
  /\ pc = "Acquire"
  /\ \E made \in BOOLEAN :
       /\ made => IsGitURL(target)
       /\ fail(IF ~IsGitURL(target) THEN "provider: path does not exist"
               ELSE IF ~made THEN "provider: creating temp directory"
               ELSE IF ctxCancelled THEN "provider: git clone failed: context canceled"
               ELSE "provider: git clone failed")
       /\ tempDir' = IF made THEN "removed" ELSE tempDir
  /\ acquired' = "error"
  /\ UNCHANGED <<sideVars, rtVars, inputVars, ctxCancelled, idx, scanners, projectCtx, loopVars,
                 faults, baselineFile, historySaved>>

\* Acquire succeeds (LocalProvider.Acquire does not look at ctx): Cleanup is
\* deferred, the Provider stage closes and the Resolvers stage opens
AcquireReturns ==
  /\ pc = "Acquire"
  /\ ~(IsGitURL(target) /\ ctxCancelled)
  /\ \E isLaravel \in BOOLEAN :
       /\ Fault(~isLaravel)
       /\ events' = events
            \o (IF isLaravel THEN <<>> ELSE
                  <<LogMessage("warn", "Path does not appear to be a Laravel project")>>)
            \o <<StageCompletedEv(StageProvider), StageStartedEv(StageResolvers)>>
  /\ tempDir' = IF IsGitURL(target) THEN "exists" ELSE tempDir
  /\ acquired' = "ok"
  /\ pc' = "Resolve"
  /\ idx' = 1
  /\ UNCHANGED <<sideVars, rtVars, inputVars, ctxCancelled, scanners, projectCtx, loopVars,
                 result, baselineFile, historySaved>>

\* Cleanup, were it to leave the directory in place
CleanupLeaves(dir) == dir

\* the deferred src.Cleanup: GitProvider.Cleanup removes the directory
Cleanup(dir) == IF dir = "exists" THEN "removed" ELSE dir

\* Run from the end of the history save to its return: the baseline is
\* written when asked for, ScanCompleted is published, nil is returned
Finish(evs) ==
  /\ events' = Append(evs, ScanCompletedEv(report))
  /\ result' = "nil"
  /\ tempDir' = Cleanup(tempDir)
  /\ pc' = "done"

\* Run from the end of the scanner loop to the call of the first Generate:
\* the building of the report, were the installed packages left out of the
\* context it embeds
EnterReportWithoutPackages(evs, all, run, errs, pctx) ==
  LET deduped == deduplicate(all)
      atLeast == filterBySeverity(deduped, ParseSeverity(cfg.Severity))
      kept == IF baseline.attached
                THEN BaselineFilter(baseline, atLeast)
                ELSE [filtered |-> atLeast, suppressed |-> 0]
  IN  /\ events' = evs
           \o <<StageCompletedEv(StageScanners), StageStartedEv(StagePostProcess)>>
           \o (IF baseline.attached /\ kept.suppressed > 0
                 THEN <<LogMessage("info", "findings suppressed by baseline")>>
                 ELSE <<>>)
           \o <<StageCompletedEv(StagePostProcess), StageStartedEv(StageReport)>>
      /\ scanned' = all
      /\ allFindings' = kept.filtered
      /\ scannersRun' = run
      /\ scannerErrors' = errs
      /\ found' = <<>>
      /\ report' = [built |-> TRUE,
                    ProjectContext |-> [pctx EXCEPT !.InstalledPackages = {}],
                    Findings |-> kept.filtered, ScannersRun |-> run,
                    ScannerErrors |-> errs]
      /\ reporters' = buildReporters(cfg.Formats)
      /\ pc' = "Generate"
      /\ idx' = 1

\* Post-Process (deduplicate, filterBySeverity, Baseline.Filter) and the
\* building of the report and of the reporters
EnterReport(evs, all, run, errs, pctx) ==
  LET deduped == deduplicate(all)
      atLeast == filterBySeverity(deduped, ParseSeverity(cfg.Severity))
      kept == IF baseline.attached
                THEN BaselineFilter(baseline, atLeast)
                ELSE [filtered |-> atLeast, suppressed |-> 0]
  IN  /\ events' = evs
           \o <<StageCompletedEv(StageScanners), StageStartedEv(StagePostProcess)>>
           \o (IF baseline.attached /\ kept.suppressed > 0
                 THEN <<LogMessage("info", "findings suppressed by baseline")>>
                 ELSE <<>>)
           \o <<StageCompletedEv(StagePostProcess), StageStartedEv(StageReport)>>
      /\ scanned' = all
      /\ allFindings' = kept.filtered
      /\ scannersRun' = run
      /\ scannerErrors' = errs
      /\ found' = <<>>
      /\ report' = [built |-> TRUE, ProjectContext |-> pctx,
                    Findings |-> kept.filtered, ScannersRun |-> run,
                    ScannerErrors |-> errs]
      /\ reporters' = buildReporters(cfg.Formats)
      /\ pc' = "Generate"
      /\ idx' = 1

\* the first scanner at or after position i that isScannerDisabled lets run
RECURSIVE NextRunnable(_)
NextRunnable(i) ==
  IF i > Len(scanners) THEN i
  ELSE IF isScannerDisabled(cfg.Disable, scanners[i]) THEN NextRunnable(i + 1)
  ELSE i

\* the scanner loop from position i to the call of the next Scan, or past
\* the loop when no scanner is left
NextScanner(evs, i, all, run, errs, pctx) ==
  LET j == NextRunnable(i)
      skipped == [k \in 1..(j - i) |->
                    ScannerEv("ScannerSkipped", scanners[i + k - 1])]
  IN  IF j <= Len(scanners)
        THEN /\ events' = evs \o skipped
                            \o <<ScannerEv("ScannerStarted", scanners[j])>>
             /\ pc' = "Scan"
             /\ idx' = j
             /\ found' = <<>>
             /\ allFindings' = all
             /\ scanned' = all
             /\ scannersRun' = run
             /\ scannerErrors' = errs
             /\ UNCHANGED <<reporters, report>>
        ELSE EnterReport(evs \o skipped, all, run, errs, pctx)

\* what the resolver at position i leaves in the context
Resolved(pctx, i, ok, packages) ==
  IF ~ok THEN pctx
  ELSE IF Resolvers[i] = "framework" THEN [pctx EXCEPT !.ProjectName = "app"]
  ELSE [pctx EXCEPT !.InstalledPackages = packages]

\* the return of the last Resolve, were the scanners registered before
\* ContextResolved is published
ResolveReturnsRegistersFirst ==
  /\ pc = "Resolve"
  /\ \E ok \in BOOLEAN, packages \in PackageSets :
       LET pctx == Resolved(projectCtx, idx, ok, packages)
           evs == events
                    \o (IF ok THEN <<>>
                        ELSE <<LogMessage("error", "Resolver failed")>>)
       IN  /\ (~ok \/ Resolvers[idx] # "packages") => packages = {}
           /\ Fault(~ok)
           /\ projectCtx' = pctx
           /\ IF idx < Len(Resolvers)
                THEN /\ events' = evs
                     /\ idx' = idx + 1
                     /\ pc' = "Resolve"
                     /\ UNCHANGED loopVars
                ELSE NextScanner(
                       evs \o <<StageCompletedEv(StageResolvers),
                                StageStartedEv(StageScanners)>>
                           \o [k \in 1..Len(scanners) |->
                                 ScannerEv("ScannerRegistered", scanners[k])]
                           \o <<[NewEvent("ContextResolved") EXCEPT
                                   !.count = Cardinality(pctx.InstalledPackages)]>>,
                       1, <<>>, <<>>, <<>>, pctx)
  /\ UNCHANGED <<sideVars, rtVars, inputVars, acquired, ctxCancelled, scanners, exitVars, historySaved>>

\* a Resolve returns, with or without an error; after the last one
\* ContextResolved is published, the Resolvers stage closes, the Scanners
\* stage opens and every scanner of the roster is registered
ResolveReturns ==
  /\ pc = "Resolve"
  /\ \E ok \in BOOLEAN, packages \in PackageSets :
       LET pctx == Resolved(projectCtx, idx, ok, packages)
           evs == events
                    \o (IF ok THEN <<>>
                        ELSE <<LogMessage("error", "Resolver failed")>>)
       IN  /\ (~ok \/ Resolvers[idx] # "packages") => packages = {}
           /\ Fault(~ok)
           /\ projectCtx' = pctx
           /\ IF idx < Len(Resolvers)
                THEN /\ events' = evs
                     /\ idx' = idx + 1
                     /\ pc' = "Resolve"
                     /\ UNCHANGED loopVars
                ELSE NextScanner(
                       evs \o <<[NewEvent("ContextResolved") EXCEPT
                                   !.count = Cardinality(pctx.InstalledPackages)]>>
                           \o <<StageCompletedEv(StageResolvers),
                                StageStartedEv(StageScanners)>>
                           \o [k \in 1..Len(scanners) |->
                                 ScannerEv("ScannerRegistered", scanners[k])],
                       1, <<>>, <<>>, <<>>, pctx)
  /\ UNCHANGED <<sideVars, rtVars, inputVars, acquired, ctxCancelled, scanners, exitVars, historySaved>>

\* what the running scanner can find next: the env, config and dependency
\* scanners report a check once, the rules scanner whatever its rules match
CanFind(name) ==
  CASE name = EnvScanner -> {EnvFinding} \ {found[k] : k \in 1..Len(found)}
    [] name = ConfigScanner -> {ConfigFinding} \ {found[k] : k \in 1..Len(found)}
    [] name = DependencyScanner ->
         {DependencyFinding} \ {found[k] : k \in 1..Len(found)}
    [] OTHER -> RuleFindings

\* whether the running scanner is the dependency scanner with packages to
\* ask about (with none, its Scan returns at once)
AsksAdvisories ==
  /\ scanners[idx] = DependencyScanner
  /\ projectCtx.InstalledPackages # {}

\* the running scanner hands a finding to emit, were it not to append it
\* to the findings it returns
EmitUnreturned ==
  /\ \/ pc = "Scan" /\ scanners[idx] # DependencyScanner
     \/ pc = "Detail" /\ ~ctxCancelled
  /\ Len(allFindings) + Len(found) < MaxFindings
  /\ \E f \in CanFind(scanners[idx]) :
       /\ found' = found
       /\ events' = Append(events, FindingDiscoveredEv(f))
  /\ UNCHANGED <<sideVars, rtVars, inputVars, acquired, ctxCancelled, pc, idx, scanners, projectCtx,
                 allFindings, scanned, scannersRun, scannerErrors, reporters,
                 report, exitVars, faults, historySaved>>

\* the running scanner appends a finding and hands it to emit, which
\* publishes FindingDiscovered; the dependency scanner does so after its
\* batch probe, from a detail request that succeeded
Emit ==
  /\ \/ pc = "Scan" /\ scanners[idx] # DependencyScanner
     \/ pc = "Detail" /\ ~ctxCancelled
  /\ Len(allFindings) + Len(found) < MaxFindings
  /\ \E f \in CanFind(scanners[idx]) :
       /\ found' = Append(found, f)
       /\ events' = Append(events, FindingDiscoveredEv(f))
  /\ UNCHANGED <<sideVars, rtVars, inputVars, acquired, ctxCancelled, pc, idx, scanners, projectCtx,
                 allFindings, scanned, scannersRun, scannerErrors, reporters,
                 report, exitVars, faults, historySaved>>

\* Scanner.batchQuery of the dependency scanner succeeds
BatchReturns ==
  /\ pc = "Scan"
  /\ AsksAdvisories
  /\ ~ctxCancelled
  /\ pc' = "Detail"
  /\ UNCHANGED <<sideVars, rtVars, inputVars, acquired, ctxCancelled, idx, scanners, projectCtx, loopVars,
                 events, exitVars, faults, historySaved>>

\* the failure of a Scan, were Run to return it
ScanFailsAborts ==
  /\ pc = "Scan"
  /\ AsksAdvisories
  /\ Fault(~ctxCancelled)
  /\ fail("scanner: querying OSV.dev")
  /\ UNCHANGED <<sideVars, rtVars, inputVars, acquired, ctxCancelled, idx, scanners,
                 projectCtx, loopVars, tempDir, baselineFile, historySaved>>

\* the failure of a Scan, were Run not to publish ScannerFailed
ScanFailsUnpublished ==
  /\ pc = "Scan"
  /\ AsksAdvisories
  /\ Fault(~ctxCancelled)
  /\ NextScanner(events, idx + 1, allFindings, scannersRun,
                 (scanners[idx] :> "querying OSV.dev") @@ scannerErrors,
                 projectCtx)
  /\ UNCHANGED <<sideVars, rtVars, inputVars, acquired, ctxCancelled, scanners, projectCtx, exitVars,
                 historySaved>>

\* the failure of a Scan, were the loop body to go on after recording it
ScanFailsNoContinue ==
  /\ pc = "Scan"
  /\ AsksAdvisories
  /\ Fault(~ctxCancelled)
  /\ NextScanner(
       Append(events, ScannerFailedEv(scanners[idx], "querying OSV.dev")),
       idx + 1, allFindings, Append(scannersRun, scanners[idx]),
       (scanners[idx] :> "querying OSV.dev") @@ scannerErrors, projectCtx)
  /\ UNCHANGED <<sideVars, rtVars, inputVars, acquired, ctxCancelled, scanners, projectCtx, exitVars,
                 historySaved>>

\* Scanner.batchQuery fails (as it does when ctx is done) and Scan returns
\* the error: Run records it, publishes ScannerFailed and goes on
ScanFails ==
  /\ pc = "Scan"
  /\ AsksAdvisories
  /\ Fault(~ctxCancelled)
  /\ NextScanner(
       Append(events, ScannerFailedEv(scanners[idx], "querying OSV.dev")),
       idx + 1, allFindings, scannersRun,
       (scanners[idx] :> "querying OSV.dev") @@ scannerErrors, projectCtx)
  /\ UNCHANGED <<sideVars, rtVars, inputVars, acquired, ctxCancelled, scanners, projectCtx, exitVars,
                 historySaved>>

\* Scan returns its findings: Run appends them, records the scanner in
\* scannersRun, publishes ScannerCompleted and goes on
ScanReturns ==
  /\ \/ pc = "Scan" /\ ~AsksAdvisories
     \/ pc = "Detail"
  /\ NextScanner(
       Append(events, ScannerCompletedEv(scanners[idx], Len(found))),
       idx + 1, allFindings \o found, Append(scannersRun, scanners[idx]),
       scannerErrors, projectCtx)
  /\ UNCHANGED <<sideVars, rtVars, inputVars, acquired, ctxCancelled, scanners, projectCtx, exitVars,
                 faults, historySaved>>

\* a reporter's Generate returns, with or without an error
GenerateReturns ==
  /\ pc = "Generate"
  /\ \E ok \in BOOLEAN :
       /\ Fault(~ok)
       /\ events' = Append(events,
            IF ok THEN LogMessage("info", "Report written")
            ELSE LogMessage("error", "reporter failed"))
  /\ IF idx < Len(reporters)
       THEN idx' = idx + 1 /\ pc' = "Generate"
       ELSE idx' = idx /\ pc' = "CompareLast"
  /\ UNCHANGED <<sideVars, rtVars, inputVars, acquired, ctxCancelled, scanners, projectCtx, loopVars,
                 exitVars, historySaved>>

\* store.CompareLast returns: a diff with new or resolved findings is
\* logged; no diff, an empty diff and an error are passed over
CompareLastReturns ==
  /\ pc = "CompareLast"
  /\ \E changed \in BOOLEAN :
       events' = IF changed
                   THEN Append(events, LogMessage("info", "vs last scan"))
                   ELSE events
  /\ pc' = "StoreSave"
  /\ UNCHANGED <<sideVars, rtVars, inputVars, acquired, ctxCancelled, idx, scanners, projectCtx, loopVars,
                 exitVars, faults, historySaved>>

\* store.Save returns, with or without an error; the Report stage closes;
\* without a baseline path to save to, Run finishes
StoreSaveReturns ==
  /\ pc = "StoreSave"
  /\ \E ok \in BOOLEAN :
       LET evs == (IF ok THEN events
                   ELSE Append(events,
                          LogMessage("warn", "Failed to save scan history")))
                    \o <<StageCompletedEv(StageReport)>>
       IN  /\ Fault(~ok)
           /\ historySaved' = ok
           /\ IF baselinePath # ""
                THEN /\ events' = evs
                     /\ pc' = "BaselineSave"
                     /\ UNCHANGED <<result, tempDir>>
                ELSE Finish(evs)
  /\ UNCHANGED <<sideVars, rtVars, inputVars, acquired, ctxCancelled, idx, scanners, projectCtx, loopVars,
                 baselineFile>>

\* the baseline save, were it to write the findings as the scanners gave them
BaselineSaveReturnsUnfiltered ==
  /\ pc = "BaselineSave"
  /\ \E ok \in BOOLEAN :
       /\ Fault(~ok)
       /\ baselineFile' = IF ok THEN BaselineSave(scanned) ELSE baselineFile
       /\ Finish(Append(events,
            IF ok THEN LogMessage("info", "Baseline saved")
            ELSE LogMessage("warn", "Failed to save baseline")))
  /\ UNCHANGED <<sideVars, rtVars, inputVars, acquired, ctxCancelled, idx, scanners, projectCtx, loopVars,
                 historySaved>>

\* baseline.Save returns, with or without an error, and Run finishes
BaselineSaveReturns ==
  /\ pc = "BaselineSave"
  /\ \E ok \in BOOLEAN :
       /\ Fault(~ok)
       /\ baselineFile' = IF ok THEN BaselineSave(allFindings) ELSE baselineFile
       /\ Finish(Append(events,
            IF ok THEN LogMessage("info", "Baseline saved")
            ELSE LogMessage("warn", "Failed to save baseline")))
  /\ UNCHANGED <<sideVars, rtVars, inputVars, acquired, ctxCancelled, idx, scanners, projectCtx, loopVars,
                 historySaved>>

\* the caller cancels the ctx it passed to Run
Cancel ==
  /\ pc # "done"
  /\ ~ctxCancelled
  /\ ctxCancelled' = TRUE
  /\ UNCHANGED <<sideVars, rtVars, inputVars, acquired, pc, idx, scanners, projectCtx, loopVars,
                 events, exitVars, faults, historySaved>>

\* one step of a run
Next ==
  \/ Begin
  \/ AcquireFails
  \/ AcquireReturns
  \/ ResolveReturns
  \/ Emit
  \/ BatchReturns
  \/ ScanFails
  \/ ScanReturns
  \/ GenerateReturns
  \/ CompareLastReturns
  \/ StoreSaveReturns
  \/ BaselineSaveReturns
  \/ Cancel

\* one execution of Orchestrator.Run, from any of the inputs
Spec == Init /\ [][Next]_vars

\* The runs that save a baseline (--update-baseline) while a minimum
\* severity is configured, a baseline is given, or both.
SaveInputs ==
  { [DefaultInput EXCEPT !.Severity = sev, !.baseline = b,
                         !.baselinePath = ".ward-baseline.json"] :
    sev \in {<<>>, <<"H","I","G","H">>}, b \in Baselines }

SpecSave == InitFrom(SaveInputs) /\ [][Next]_vars

\* The runs with a disable list: a name in another case, a name as the
\* scanner spells it, two names, and a name that the enable list has too.
DisableInputs ==
  { [DefaultInput EXCEPT !.Enable = l.Enable, !.Disable = l.Disable,
                         !.target = t, !.baselinePath = ".ward-baseline.json"] :
    l \in { [Enable |-> <<>>,
             Disable |-> << <<"E","N","V","-","S","c","a","n","n","e","r">> >>],
            [Enable |-> <<>>, Disable |-> <<DependencyScanner>>],
            [Enable |-> <<>>,
             Disable |-> << <<"C","o","n","f","i","g","-","s","c","a","n","n","e","r">>,
                            RulesScanner >>],
            [Enable |-> <<EnvScanner, ConfigScanner>>,
             Disable |-> << <<"C","O","N","F","I","G","-","S","C","A","N","N","E","R">> >>] },
    t \in Targets }

SpecDisable == InitFrom(DisableInputs) /\ [][Next]_vars

(***************************************************************************)
(* The baseline round trip: Save from a list of findings, Load of the file *)
(* written, Filter of the same list.                                       *)
(***************************************************************************)
\* the findings a baseline can be saved from
Findings == RuleFindings \cup {EnvFinding}

\* the lists over a set, up to a length
RECURSIVE ListsUpTo(_, _)
ListsUpTo(S, n) ==
  IF n = 0 THEN {<<>>}
  ELSE LET shorter == ListsUpTo(S, n - 1)
       IN  shorter \cup {Append(l, x) : l \in shorter, x \in S}

RtInit ==
  /\ RunIdle
  /\ SideIdle
  /\ rtPc = "save"
  /\ rtFindings \in ListsUpTo(Findings, MaxBaselineLen)
  /\ rtFile = NoFile
  /\ rtBaseline = NoBaseline
  /\ rtFiltered = <<>>
  /\ rtSuppressed = 0

\* baseline.Save writes the file
RtSave ==
  /\ rtPc = "save"
  /\ rtFile' = BaselineSave(rtFindings)
  /\ rtPc' = "load"
  /\ UNCHANGED <<sideVars, runVars, rtFindings, rtBaseline, rtFiltered, rtSuppressed>>

\* baseline.Save cannot write the file and returns the error
RtSaveFails ==
  /\ rtPc = "save"
  /\ rtPc' = "failed"
  /\ UNCHANGED <<sideVars, runVars, rtFindings, rtFile, rtBaseline, rtFiltered, rtSuppressed>>

\* baseline.Load reads the file back
RtLoad ==
  /\ rtPc = "load"
  /\ rtFile.exists
  /\ rtBaseline' = BaselineLoad(rtFile)
  /\ rtPc' = "filter"
  /\ UNCHANGED <<sideVars, runVars, rtFindings, rtFile, rtFiltered, rtSuppressed>>

\* Baseline.Filter on the findings the baseline was saved from
RtFilter ==
  /\ rtPc = "filter"
  /\ rtFiltered' = BaselineFilter(rtBaseline, rtFindings).filtered
  /\ rtSuppressed' = BaselineFilter(rtBaseline, rtFindings).suppressed
  /\ rtPc' = "done"
  /\ UNCHANGED <<sideVars, runVars, rtFindings, rtFile, rtBaseline>>

RtNext ==
  \/ RtSave
  \/ RtSaveFails
  \/ RtLoad
  \/ RtFilter

\* a baseline round trip on any list of findings
SpecBaseline == RtInit /\ [][RtNext]_vars

(***************************************************************************)
(* A finding whose attributes change between two scans: Fingerprint and    *)
(* IsBaselined on the edited finding.                                      *)
(***************************************************************************)
\* a models.Finding with all its fields
FullFinding(f) ==
  [ID |-> f.ID, Title |-> f.Title, Description |-> "", Severity |-> f.Severity,
   Category |-> "", Scanner |-> f.Scanner, File |-> f.File, Line |-> f.Line,
   CodeSnippet |-> "", Remediation |-> "", References |-> <<>>]

\* the fields of a finding other than ID, File and Line, and values for them
Attributes ==
  [Title |-> {"x", "y"}, Description |-> {"", "d"},
   Severity |-> {SeverityInfo, SeverityHigh}, Category |-> {"", "c"},
   Scanner |-> {RulesScanner, EnvScanner}, CodeSnippet |-> {"", "s"},
   Remediation |-> {"", "r"}, References |-> {<<>>, <<"u">>}]

FpInit ==
  /\ RunIdle
  /\ RtIdle
  /\ BusNew
  /\ DepIdle
  /\ RosterIdle
  /\ GitIdle
  /\ ReportIdle
  /\ StoreIdle
  /\ CmdIdle
  /\ RulesIdle
  /\ ExampleIdle
  /\ TwoIdle
  /\ fpPc = "looked"
  /\ fpBaseline \in Baselines
  /\ \E f \in RuleFindings :
       /\ fpFinding = FullFinding(f)
       /\ fpFirst = Looked(fpBaseline, FullFinding(f))
       /\ fpLast = Looked(fpBaseline, FullFinding(f))

\* a scanner reports the finding with another value of one attribute
FpEdit ==
  /\ \E a \in DOMAIN Attributes : \E v \in Attributes[a] :
       /\ fpFinding[a] # v
       /\ fpFinding' = [fpFinding EXCEPT ![a] = v]
  /\ fpPc' = "edited"
  /\ UNCHANGED <<runVars, rtVars, busVars, depVars, rosterVars, gitVars, reportVars, storeVars, cmdVars, rulesVars, exampleVars, twoVars, fpBaseline, fpFirst, fpLast>>

\* Finding.Fingerprint and Baseline.IsBaselined on the finding as it is now
FpLook ==
  /\ fpPc = "edited"
  /\ fpPc' = "looked"
  /\ fpLast' = Looked(fpBaseline, fpFinding)
  /\ UNCHANGED <<runVars, rtVars, busVars, depVars, rosterVars, gitVars, reportVars, storeVars, cmdVars, rulesVars, exampleVars, twoVars, fpFinding, fpBaseline, fpFirst>>

FpNext ==
  \/ FpEdit
  \/ FpLook

SpecFingerprint == FpInit /\ [][FpNext]_vars

(***************************************************************************)
(* eventbus: Subscribe, SubscribeAll, Publish and Close called from        *)
(* several goroutines.  b.mu is a sync.RWMutex: any number of readers or   *)
(* one writer, and a blocked Lock keeps new readers out.  In SpecBus a     *)
(* handler returns without calling the bus; in SpecBusReentrant it may     *)
(* call Subscribe, SubscribeAll or Close from inside Publish.              *)
(***************************************************************************)
\* each call of a goroutine changes its own record only
BusFrame == UNCHANGED <<runVars, rtVars, fpVars, depVars, rosterVars, gitVars, reportVars, storeVars, cmdVars, rulesVars, exampleVars, twoVars>>

\* the goroutine enters a call that takes the write lock
CallLocked(g, op, type) ==
  /\ busGo[g].pc = "idle"
  /\ busGo' = [busGo EXCEPT ![g] =
                 [IdleGoroutine EXCEPT !.pc = "Lock", !.op = op, !.type = type,
                                       !.id = busCalls.subscribe + 1]]
  /\ muPending' = muPending \cup {g}

\* Subscribe(eventType, handler) is called; the handler is a new one
Subscribe(g) ==
  /\ busCalls.subscribe < MaxHandlers
  /\ \E t \in EventTypes : CallLocked(g, "Subscribe", t)
  /\ busCalls' = [busCalls EXCEPT !.subscribe = @ + 1]
  /\ UNCHANGED <<subscribers, allHandlers, closed, muReaders, muWriter,
                 busCloses, busLog>>
  /\ BusFrame

\* SubscribeAll(handler) is called; the handler is a new one
SubscribeAll(g) ==
  /\ busCalls.subscribe < MaxHandlers
  /\ CallLocked(g, "SubscribeAll", "")
  /\ busCalls' = [busCalls EXCEPT !.subscribe = @ + 1]
  /\ UNCHANGED <<subscribers, allHandlers, closed, muReaders, muWriter,
                 busCloses, busLog>>
  /\ BusFrame

\* Close is called
Close(g) ==
  /\ busCalls.close < MaxCloses
  /\ CallLocked(g, "Close", "")
  /\ busCalls' = [busCalls EXCEPT !.close = @ + 1]
  /\ UNCHANGED <<subscribers, allHandlers, closed, muReaders, muWriter,
                 busCloses, busLog>>
  /\ BusFrame

\* Publish(event) is called, with a new event of some type
Publish(g) ==
  /\ busCalls.publish < MaxPublishes
  /\ busGo[g].pc = "idle"
  /\ \E t \in EventTypes :
       busGo' = [busGo EXCEPT ![g] =
                   [IdleGoroutine EXCEPT !.pc = "RLock", !.op = "Publish",
                                         !.type = t,
                                         !.id = busCalls.publish + 1,
                                         !.afterClose = busCloses > 0]]
  /\ busCalls' = [busCalls EXCEPT !.publish = @ + 1]
  /\ UNCHANGED <<subscribers, allHandlers, closed, muReaders, muWriter,
                 muPending, busCloses, busLog>>
  /\ BusFrame

\* b.mu.Lock(), were it not to wait for the read lock of the caller itself
LockPastOwnRead(g) ==
  /\ busGo[g].pc = "Lock"
  /\ muWriter = 0
  /\ muReaders \ {g} = {}
  /\ muWriter' = g
  /\ muPending' = muPending \ {g}
  /\ busGo' = [busGo EXCEPT ![g].pc = "locked"]
  /\ UNCHANGED <<subscribers, allHandlers, closed, muReaders, busCalls,
                 busCloses, busLog>>
  /\ BusFrame

\* b.mu.Lock() returns
Lock(g) ==
  /\ busGo[g].pc = "Lock"
  /\ muWriter = 0
  /\ muReaders = {}
  /\ muWriter' = g
  /\ muPending' = muPending \ {g}
  /\ busGo' = [busGo EXCEPT ![g].pc = "locked"]
  /\ UNCHANGED <<subscribers, allHandlers, closed, muReaders, busCalls,
                 busCloses, busLog>>
  /\ BusFrame

\* the body of Subscribe, SubscribeAll or Close under the write lock, the
\* deferred Unlock and the return
Unlock(g) ==
  LET me == busGo[g]
      nested == me.ret # ""
      op == IF nested THEN me.inner ELSE me.op
      type == IF nested THEN me.innerType ELSE me.type
      id == IF nested THEN me.innerId ELSE me.id
  IN  /\ me.pc = "locked"
      /\ muWriter' = 0
      /\ subscribers' =
           IF op = "Subscribe"
             THEN [subscribers EXCEPT ![type] = Append(@, id)]
             ELSE subscribers
      /\ allHandlers' =
           IF op = "SubscribeAll" THEN Append(allHandlers, id) ELSE allHandlers
      /\ closed' = (closed \/ op = "Close")
      /\ busCloses' = IF op = "Close" THEN busCloses + 1 ELSE busCloses
      /\ busGo' = [busGo EXCEPT ![g] =
                     IF nested
                       THEN [me EXCEPT !.pc = me.ret, !.i = me.i + 1,
                                       !.inner = "", !.innerType = "",
                                       !.innerId = 0, !.ret = ""]
                       ELSE IdleGoroutine]
      /\ UNCHANGED <<muReaders, muPending, busCalls, busLog>>
      /\ BusFrame

\* Publish, were it not to read b.closed
RLockUnchecked(g) ==
  /\ busGo[g].pc = "RLock"
  /\ muWriter = 0
  /\ muPending = {}
  /\ muReaders' = muReaders \cup {g}
  /\ busGo' = [busGo EXCEPT ![g].pc = "all", ![g].i = 1]
  /\ UNCHANGED <<subscribers, allHandlers, closed, muWriter, muPending,
                 busCalls, busCloses, busLog>>
  /\ BusFrame

\* b.mu.RLock() returns and Publish reads b.closed
RLock(g) ==
  /\ busGo[g].pc = "RLock"
  /\ muWriter = 0
  /\ muPending = {}
  /\ muReaders' = muReaders \cup {g}
  /\ busGo' = [busGo EXCEPT ![g].pc = IF closed THEN "RUnlock" ELSE "all",
                            ![g].i = 1]
  /\ UNCHANGED <<subscribers, allHandlers, closed, muWriter, muPending,
                 busCalls, busCloses, busLog>>
  /\ BusFrame

\* the loops of Publish, were the second one to range over the handlers of
\* every event type
HandlersOfAnyType(pcOfLoop, type) ==
  IF pcOfLoop = "all" THEN allHandlers
  ELSE subscribers["ScanStarted"] \o subscribers["LogMessage"]

\* the handlers the loop of Publish at pc ranges over
HandlersAt(pcOfLoop, type) ==
  IF pcOfLoop = "all" THEN allHandlers ELSE subscribers[type]

\* one turn of a loop of Publish: the next handler is called and returns,
\* or the loop is over
Invoke(g) ==
  LET me == busGo[g]
      hs == HandlersAt(me.pc, me.type)
  IN  /\ me.pc \in {"all", "typed"}
      /\ IF me.i <= Len(hs)
           THEN /\ busLog' = Append(busLog, [handler |-> hs[me.i],
                                             event |-> me.id, by |-> g,
                                             closes |-> busCloses])
                /\ busGo' = [busGo EXCEPT ![g].i = @ + 1]
           ELSE /\ busLog' = busLog
                /\ busGo' = [busGo EXCEPT
                               ![g].pc = IF me.pc = "all" THEN "typed"
                                         ELSE "RUnlock",
                               ![g].i = 1]
      /\ UNCHANGED <<subscribers, allHandlers, closed, muReaders, muWriter,
                     muPending, busCalls, busCloses>>
      /\ BusFrame

\* the deferred RUnlock of Publish and its return
RUnlock(g) ==
  /\ busGo[g].pc = "RUnlock"
  /\ muReaders' = muReaders \ {g}
  /\ busGo' = [busGo EXCEPT ![g] = IdleGoroutine]
  /\ UNCHANGED <<subscribers, allHandlers, closed, muWriter, muPending,
                 busCalls, busCloses, busLog>>
  /\ BusFrame

BusInit ==
  /\ RunIdle
  /\ RtIdle
  /\ FpIdle
  /\ DepIdle
  /\ RosterIdle
  /\ GitIdle
  /\ ReportIdle
  /\ StoreIdle
  /\ CmdIdle
  /\ RulesIdle
  /\ ExampleIdle
  /\ TwoIdle
  /\ BusNew

BusNext ==
  \E g \in Goroutines :
    \/ Subscribe(g)
    \/ SubscribeAll(g)
    \/ Publish(g)
    \/ Close(g)
    \/ Lock(g)
    \/ Unlock(g)
    \/ RLock(g)
    \/ Invoke(g)
    \/ RUnlock(g)

SpecBus == BusInit /\ [][BusNext]_vars

\* one turn of a loop of Publish in which the handler called calls
\* Subscribe, SubscribeAll (with a new handler) or Close on the bus
HandlerCalls(g) ==
  LET me == busGo[g]
      hs == HandlersAt(me.pc, me.type)
  IN  /\ me.pc \in {"all", "typed"}
      /\ me.i <= Len(hs)
      /\ \E op \in {"Subscribe", "SubscribeAll", "Close"}, t \in EventTypes :
           /\ op # "Subscribe" => t = "ScanStarted"
           /\ IF op = "Close" THEN busCalls.close < MaxCloses
                              ELSE busCalls.subscribe < MaxHandlers
           /\ busGo' = [busGo EXCEPT ![g] =
                          [me EXCEPT !.pc = "Lock", !.inner = op,
                                     !.innerType = IF op = "Subscribe" THEN t ELSE "",
                                     !.innerId = IF op = "Close" THEN 0
                                                 ELSE busCalls.subscribe + 1,
                                     !.ret = me.pc]]
           /\ busCalls' = IF op = "Close"
                            THEN [busCalls EXCEPT !.close = @ + 1]
                            ELSE [busCalls EXCEPT !.subscribe = @ + 1]
      /\ busLog' = Append(busLog, [handler |-> hs[me.i], event |-> me.id,
                                   by |-> g, closes |-> busCloses])
      /\ muPending' = muPending \cup {g}
      /\ UNCHANGED <<subscribers, allHandlers, closed, muReaders, muWriter,
                     busCloses>>
      /\ BusFrame

BusReentrantNext ==
  \E g \in Goroutines :
    \/ Subscribe(g)
    \/ SubscribeAll(g)
    \/ Publish(g)
    \/ Close(g)
    \/ Lock(g)
    \/ Unlock(g)
    \/ RLock(g)
    \/ Invoke(g)
    \/ HandlerCalls(g)
    \/ RUnlock(g)

SpecBusReentrant == BusInit /\ [][BusReentrantNext]_vars

(***************************************************************************)
(* The dependency scanner inside a run: Scan, batchQuery and queryPackage  *)
(* request by request, with the advisory service answering anything.       *)
(***************************************************************************)
\* strings.TrimPrefix
TrimPrefix(str, prefix) ==
  IF HasPrefix(str, prefix) THEN SubSeq(str, Len(prefix) + 1, Len(str)) ELSE str

\* normalizeVersion, were only the lower-case prefix trimmed
normalizeVersionLowerOnly(v) ==
  LET w == TrimPrefix(v, <<"v">>)
  IN  IF HasPrefix(w, <<"d", "e", "v", "-">>) \/ w = <<>> THEN <<>> ELSE w

\* normalizeVersion
normalizeVersion(v) ==
  LET w == TrimPrefix(TrimPrefix(v, <<"v">>), <<"V">>)
  IN  IF HasPrefix(w, <<"d", "e", "v", "-">>) \/ w = <<>> THEN <<>> ELSE w

\* parseSeverity of the dependency scanner
parseSeverity(str) ==
  CASE ToLower(str) = <<"c", "r", "i", "t", "i", "c", "a", "l">> -> SeverityCritical
    [] ToLower(str) = <<"h", "i", "g", "h">> -> SeverityHigh
    [] ToLower(str) = <<"l", "o", "w">> -> SeverityLow
    [] OTHER -> SeverityMedium

\* the advisories a detail request can return
Vulns ==
  { [ID |-> <<"G", "1">>, Aliases |-> << <<"X">>, <<"C", "V", "E", "-", "1">> >>,
     Severity |-> <<"H", "I", "G", "H">>, Summary |-> "s"],
    [ID |-> <<"G", "2">>, Aliases |-> <<>>, Severity |-> <<>>, Summary |-> ""] }

\* the lists of advisories a detail request can return
VulnLists ==
  {<<>>} \cup {<<v>> : v \in Vulns}
         \cup {<<v, w>> : v \in {x \in Vulns : x.Aliases # <<>>},
                          w \in {x \in Vulns : x.Aliases = <<>>}}

\* how a request can fail: no response, a status other than 200, a body
\* that is no JSON
Failures == {"network", "status", "body"}

RECURSIVE FirstCVE(_, _)
\* the first alias that starts with "CVE-", the advisory's ID when none does
FirstCVE(vuln, i) ==
  IF i > Len(vuln.Aliases) THEN vuln.ID
  ELSE IF HasPrefix(vuln.Aliases[i], <<"C", "V", "E", "-">>) THEN vuln.Aliases[i]
  ELSE FirstCVE(vuln, i + 1)

\* vulnToFinding; the title is "[<cve>] <package>@<version> - <summary>"
vulnToFinding(scanner, pkgName, pkgVersion, vuln) ==
  [ID |-> FirstCVE(vuln, 1),
   File |-> <<"c","o","m","p","o","s","e","r",".","l","o","c","k">>,
   Line |-> 0, Severity |-> parseSeverity(vuln.Severity),
   Title |-> <<"[", FirstCVE(vuln, 1), "] ", pkgName, "@", pkgVersion, " - ",
               vuln.Summary>>,
   Scanner |-> scanner]

\* the orders in which the range over the packages map can visit the
\* packages whose version normalizes to a non-empty one
QueryOrders(packages) ==
  LET asked == {[name |-> p, version |-> normalizeVersion(InstalledVersion[p])] :
                  p \in {q \in packages : normalizeVersion(InstalledVersion[q]) # <<>>}}
  IN  {o \in [1..Cardinality(asked) -> asked] :
         \A i, j \in 1..Cardinality(asked) : o[i] = o[j] => i = j}

\* the batch that starts at position i of the queries
BatchAt(order, i) ==
  SubSeq(order, i, IF i + batchSize - 1 > Len(order) THEN Len(order)
                   ELSE i + batchSize - 1)

\* the packages of the batch, were a batch with an advisory in any result
\* taken as affected in all its packages
AffectedOfAnyHit(batchOrder, results) ==
  IF \E j \in 1..Len(results) : results[j] THEN batchOrder ELSE <<>>

\* the packages of the batch whose result names an advisory; a result
\* without a query at its position is dropped
AffectedOf(batchOrder, results) ==
  LET hit == {j \in 1..Len(results) : results[j] /\ j <= Len(batchOrder)}
  IN  SelectSeq(batchOrder, LAMBDA vp :
        \E j \in hit : batchOrder[j] = vp)

\* a request as the log keeps it: the packages asked about, how it failed
\* ("" when it did not), the number of results of a batch answer, and as
\* vulns the advisories of a detail answer or, for a batch answer, whether
\* the vulns of each result are non-empty
Request(kind, packages, failure, results, vulns) ==
  [kind |-> kind, packages |-> packages, failure |-> failure,
   results |-> results, vulns |-> vulns]

\* Scan returns without an error: Run appends the findings, records the
\* scanner and publishes ScannerCompleted
DepReturns(evs, findings) ==
  /\ NextScanner(
       Append(evs, ScannerCompletedEv(scanners[idx], Len(findings))),
       idx + 1, allFindings \o findings, Append(scannersRun, scanners[idx]),
       scannerErrors, projectCtx)
  /\ depAt' = 0

\* Scan is entered with packages installed: batchQuery builds its queries
DepScanBegins ==
  /\ pc = "Scan"
  /\ AsksAdvisories
  /\ \E order \in QueryOrders(projectCtx.InstalledPackages) :
       /\ depOrder' = order
       /\ IF Len(order) = 0
            THEN DepReturns(events, <<>>)
            ELSE /\ pc' = "DepBatch"
                 /\ depAt' = 1
                 /\ UNCHANGED <<idx, loopVars, events>>
  /\ UNCHANGED <<fpVars, busVars, rosterVars, gitVars, reportVars, storeVars, cmdVars, rulesVars, exampleVars, twoVars, depAffected, depRequests, rtVars, inputVars,
                 acquired, ctxCancelled, scanners, projectCtx, exitVars, faults,
                 historySaved>>

\* the failure of a batch request, were batchQuery to return the packages
\* it has found so far
DepBatchFailsKeepsAffected ==
  /\ pc = "DepBatch"
  /\ \E how \in Failures :
       depRequests' = Append(depRequests,
                        Request("batch", BatchAt(depOrder, depAt), how, 0, <<>>))
  /\ IF depAffected = <<>>
       THEN DepReturns(events, <<>>)
       ELSE /\ pc' = "DepDetail"
            /\ depAt' = 1
            /\ UNCHANGED <<idx, loopVars, events>>
  /\ UNCHANGED <<fpVars, busVars, rosterVars, gitVars, reportVars, storeVars, cmdVars, rulesVars, exampleVars, twoVars, depOrder, depAffected, rtVars, inputVars,
                 acquired, ctxCancelled, scanners, projectCtx, exitVars, faults,
                 historySaved>>

\* a batch request fails, in any of the three ways: batchQuery and Scan
\* return the error, Run records it and publishes ScannerFailed
DepBatchFails ==
  /\ pc = "DepBatch"
  /\ \E how \in Failures :
       depRequests' = Append(depRequests,
                        Request("batch", BatchAt(depOrder, depAt), how, 0, <<>>))
  /\ depAt' = 0
  /\ NextScanner(
       Append(events, ScannerFailedEv(scanners[idx], "querying OSV.dev")),
       idx + 1, allFindings, scannersRun,
       (scanners[idx] :> "querying OSV.dev") @@ scannerErrors, projectCtx)
  /\ UNCHANGED <<fpVars, busVars, rosterVars, gitVars, reportVars, storeVars, cmdVars, rulesVars, exampleVars, twoVars, depOrder, depAffected, rtVars, inputVars,
                 acquired, ctxCancelled, scanners, projectCtx, exitVars, faults,
                 historySaved>>

\* a batch request is answered with status 200 and a list of results of any
\* length; after the last batch Scan returns when no package is affected
DepBatchResponds ==
  /\ pc = "DepBatch"
  /\ LET batchOrder == BatchAt(depOrder, depAt)
     IN  \E n \in 0..(Len(batchOrder) + 1) : \E results \in [1..n -> BOOLEAN] :
           LET affected == depAffected \o AffectedOf(batchOrder, results)
           IN  /\ depRequests' = Append(depRequests,
                                   Request("batch", batchOrder, "", n,
                                           [j \in 1..n |-> results[j]]))
               /\ depAffected' = affected
               /\ IF depAt + batchSize <= Len(depOrder)
                    THEN /\ depAt' = depAt + batchSize
                         /\ UNCHANGED <<pc, idx, loopVars, events>>
                    ELSE IF affected = <<>>
                      THEN DepReturns(events, <<>>)
                      ELSE /\ pc' = "DepDetail"
                           /\ depAt' = 1
                           /\ UNCHANGED <<idx, loopVars, events>>
  /\ UNCHANGED <<fpVars, busVars, rosterVars, gitVars, reportVars, storeVars, cmdVars, rulesVars, exampleVars, twoVars, depOrder, rtVars, inputVars, acquired,
                 ctxCancelled, scanners, projectCtx, exitVars, faults,
                 historySaved>>

\* the detail loop goes to the next affected package, or Scan returns
DepDetailNext(evs, findings) ==
  IF depAt < Len(depAffected)
    THEN /\ depAt' = depAt + 1
         /\ found' = findings
         /\ events' = evs
         /\ UNCHANGED <<pc, idx, allFindings, scanned, scannersRun,
                        scannerErrors, reporters, report>>
    ELSE DepReturns(evs, findings)

\* the failure of a detail request, were it to end the loop
DepDetailFailsStops ==
  /\ pc = "DepDetail"
  /\ \E how \in Failures :
       depRequests' = Append(depRequests,
                        Request("detail", <<depAffected[depAt]>>, how, 0, <<>>))
  /\ DepReturns(events, found)
  /\ UNCHANGED <<fpVars, busVars, rosterVars, gitVars, reportVars, storeVars, cmdVars, rulesVars, exampleVars, twoVars, depOrder, depAffected, rtVars, inputVars,
                 acquired, ctxCancelled, scanners, projectCtx, exitVars, faults,
                 historySaved>>

\* the detail request for an affected package fails, in any of the three
\* ways: the package is skipped
DepDetailFails ==
  /\ pc = "DepDetail"
  /\ \E how \in Failures :
       depRequests' = Append(depRequests,
                        Request("detail", <<depAffected[depAt]>>, how, 0, <<>>))
  /\ DepDetailNext(events, found)
  /\ UNCHANGED <<fpVars, busVars, rosterVars, gitVars, reportVars, storeVars, cmdVars, rulesVars, exampleVars, twoVars, depOrder, depAffected, rtVars, inputVars,
                 acquired, ctxCancelled, scanners, projectCtx, exitVars, faults,
                 historySaved>>

\* the detail request for an affected package is answered with advisories:
\* each becomes a finding that is appended and handed to emit
DepDetailResponds ==
  /\ pc = "DepDetail"
  /\ \E vulns \in VulnLists :
       LET vp == depAffected[depAt]
           fs == [k \in 1..Len(vulns) |->
                    vulnToFinding(scanners[idx], vp.name, vp.version, vulns[k])]
       IN  /\ depRequests' = Append(depRequests,
                               Request("detail", <<vp>>, "", 0, vulns))
           /\ DepDetailNext(
                events \o [k \in 1..Len(fs) |-> FindingDiscoveredEv(fs[k])],
                found \o fs)
  /\ UNCHANGED <<fpVars, busVars, rosterVars, gitVars, reportVars, storeVars, cmdVars, rulesVars, exampleVars, twoVars, depOrder, depAffected, rtVars, inputVars,
                 acquired, ctxCancelled, scanners, projectCtx, exitVars, faults,
                 historySaved>>

\* a run of the dependency scanner alone on a local directory, in which
\* nothing but the advisory service fails
DepInit ==
  /\ cfg = [Severity |-> <<>>, Enable |-> <<DependencyScanner>>,
            Disable |-> <<>>, Formats |-> <<>>]
  /\ target = <<"/", "a", "p", "p">>
  /\ baseline = NoBaseline
  /\ baselinePath = ""
  /\ ctxCancelled = FALSE
  /\ acquired = "pending"
  /\ pc = "start"
  /\ idx = 0
  /\ scanners = <<>>
  /\ projectCtx = EmptyContext
  /\ found = <<>>
  /\ allFindings = <<>>
  /\ scanned = <<>>
  /\ scannersRun = <<>>
  /\ scannerErrors = <<>>
  /\ reporters = <<>>
  /\ report = NoReport
  /\ events = <<>>
  /\ result = "running"
  /\ faults = MaxFaults
  /\ tempDir = "none"
  /\ baselineFile = NoFile
  /\ historySaved = FALSE
  /\ RtIdle
  /\ SideIdle

DepNext ==
  \/ Begin
  \/ AcquireReturns
  \/ ResolveReturns
  \/ ScanReturns
  \/ DepScanBegins
  \/ DepBatchFails
  \/ DepBatchResponds
  \/ DepDetailFails
  \/ DepDetailResponds
  \/ GenerateReturns
  \/ CompareLastReturns
  \/ StoreSaveReturns

SpecDependency == DepInit /\ [][DepNext]_vars

(***************************************************************************)
(* The scanner roster: LoadAllRules with applyOverrides, the three fixed   *)
(* scanners plus the rules scanner, and filterScanners.                    *)
(***************************************************************************)
\* the rules a YAML file can define; a rule without "enabled: true" is
\* loaded with Enabled false
RuleDefinitions ==
  { [ID |-> "R1", Severity |-> "high", Enabled |-> TRUE],
    [ID |-> "R2", Severity |-> "low", Enabled |-> FALSE] }

\* RuleOverride values; Enabled is a *bool: "nil", "true" or "false"
NoOverride == [ID |-> "", Severity |-> "", Enabled |-> "nil"]

\* cfg.Rules: the rule ids to disable and the overrides (one per rule id,
\* as a list of [ID, Severity, Enabled])
RulesConfigs ==
  { [Disable |-> <<>>, Override |-> <<>>],
    [Disable |-> <<"R1">>, Override |-> <<>>],
    [Disable |-> <<>>,
     Override |-> <<[ID |-> "R1", Severity |-> "", Enabled |-> "false"]>>],
    [Disable |-> <<>>,
     Override |-> <<[ID |-> "R2", Severity |-> "critical", Enabled |-> "true"]>>] }

\* cfg.Scanners
ScannersConfigs ==
  { [Enable |-> e, Disable |-> d] :
      e \in {<<>>, <<<<"E","N","V","-","s","c","a","n","n","e","r">>, RulesScanner>>},
      d \in {<<>>, <<DependencyScanner>>, <<EnvScanner>>,
             <<<<"R","u","l","e","s","-","S","c","a","n","n","e","r">>>>} }

\* rc.Override[id], and whether there is one
OverrideOf(rc, id) ==
  IF \E k \in 1..Len(rc.Override) : rc.Override[k].ID = id
    THEN rc.Override[CHOOSE k \in 1..Len(rc.Override) : rc.Override[k].ID = id]
    ELSE NoOverride

RECURSIVE OverridesFrom(_, _, _)
OverridesFrom(rules, rc, i) ==
  IF i > Len(rules) THEN <<>>
  ELSE LET r == rules[i]
           ov == OverrideOf(rc, r.ID)
       IN  IF InSeq(r.ID, rc.Disable) THEN OverridesFrom(rules, rc, i + 1)
           ELSE IF ov.ID = r.ID /\ ov.Enabled = "false"
             THEN OverridesFrom(rules, rc, i + 1)
           ELSE <<IF ov.ID = r.ID /\ ov.Severity # ""
                    THEN [r EXCEPT !.Severity = ov.Severity] ELSE r>>
                \o OverridesFrom(rules, rc, i + 1)

\* applyOverrides: rules in rc.Disable and rules overridden with enabled
\* false are dropped, an overriding severity replaces the rule's
applyOverrides(rules, rc) == OverridesFrom(rules, rc, 1)

RosterInit ==
  /\ RunIdle
  /\ GitIdle
  /\ ReportIdle
  /\ StoreIdle
  /\ CmdIdle
  /\ RulesIdle
  /\ ExampleIdle
  /\ TwoIdle
  /\ RtIdle
  /\ FpIdle
  /\ BusNew
  /\ DepIdle
  /\ rosterPc = "load"
  /\ ruleFiles \in ListsUpTo(RuleDefinitions, MaxRules)
  /\ rulesCfg \in RulesConfigs
  /\ scannersCfg \in ScannersConfigs
  /\ customRules = NotLoaded
  /\ rosterBuilt = <<>>
  /\ rosterScanners = <<>>

RosterFrame == UNCHANGED <<runVars, rtVars, fpVars, busVars, depVars, gitVars, reportVars, storeVars, cmdVars, rulesVars, exampleVars, twoVars>>

\* LoadAllRules returns the rules of the files after applyOverrides
LoadAllRules ==
  /\ rosterPc = "load"
  /\ customRules' = [failed |-> FALSE, rules |-> applyOverrides(ruleFiles, rulesCfg)]
  /\ rosterPc' = "build"
  /\ UNCHANGED <<ruleFiles, rulesCfg, scannersCfg, rosterBuilt, rosterScanners>>
  /\ RosterFrame

\* LoadAllRules fails: a directory or a file cannot be read or parsed
LoadAllRulesFails ==
  /\ rosterPc = "load"
  /\ customRules' = [failed |-> TRUE, rules |-> <<>>]
  /\ rosterPc' = "build"
  /\ UNCHANGED <<ruleFiles, rulesCfg, scannersCfg, rosterBuilt, rosterScanners>>
  /\ RosterFrame

\* Run builds the scanners: the fixed ones, and the rules scanner when
\* LoadAllRules returned rules
BuildScanners ==
  /\ rosterPc = "build"
  /\ rosterBuilt' = FixedScanners
                \o (IF ~customRules.failed /\ Len(customRules.rules) > 0
                      THEN <<RulesScanner>> ELSE <<>>)
  /\ rosterPc' = "filter"
  /\ UNCHANGED <<ruleFiles, rulesCfg, scannersCfg, customRules, rosterScanners>>
  /\ RosterFrame

\* Run calls filterScanners
FilterScanners ==
  /\ rosterPc = "filter"
  /\ rosterScanners' = filterScanners(scannersCfg.Enable, scannersCfg.Disable, rosterBuilt)
  /\ rosterPc' = "done"
  /\ UNCHANGED <<ruleFiles, rulesCfg, scannersCfg, customRules, rosterBuilt>>
  /\ RosterFrame

RosterNext ==
  \/ LoadAllRules
  \/ LoadAllRulesFails
  \/ BuildScanners
  \/ FilterScanners

SpecRoster == RosterInit /\ [][RosterNext]_vars

(***************************************************************************)
(* The git provider: NewGitProvider, Acquire and Cleanup.                  *)
(***************************************************************************)
\* what the repository holds: an artisan file or not, and a composer.json
\* that is missing, does not parse, requires laravel/framework, or does not
GitRepos ==
  { [artisan |-> a, composer |-> c] :
      a \in BOOLEAN, c \in {"missing", "invalid", "laravel", "other"} }

\* the directory os.MkdirTemp makes
GitTmpDir == <<"/","t","m","p","/","w","a","r","d","-","s","c","a","n","-","1">>

\* the repository URL
GitRepoURL == <<"a",".","g","i","t">>

\* the arguments Acquire passes to git
CloneArgs(depth, repoURL, tmpDir) ==
  <<<<"c","l","o","n","e">>>>
    \o (IF depth > 0 THEN <<<<"-","-","d","e","p","t","h">>, FmtInt(depth)>> ELSE <<>>)
    \o <<repoURL, tmpDir>>

GitFrame == UNCHANGED <<runVars, rtVars, fpVars, busVars, depVars, rosterVars, reportVars, storeVars, cmdVars, rulesVars, exampleVars, twoVars>>

GitInit ==
  /\ RunIdle
  /\ ReportIdle
  /\ StoreIdle
  /\ CmdIdle
  /\ RulesIdle
  /\ ExampleIdle
  /\ TwoIdle
  /\ RtIdle
  /\ FpIdle
  /\ BusNew
  /\ DepIdle
  /\ RosterIdle
  /\ gitPc = "new"
  /\ gitDepthCfg \in (0 - MaxGitDepth)..MaxGitDepth
  /\ gitRepo \in GitRepos
  /\ gitDepth = 0
  /\ gitTempDir = <<>>
  /\ gitDir = "none"
  /\ gitArgs = <<>>
  /\ gitResult = NoSourceResult

\* NewGitProvider: a depth of zero or less becomes 1
NewGitProvider ==
  /\ gitPc = "new"
  /\ gitDepth' = IF gitDepthCfg <= 0 THEN 1 ELSE gitDepthCfg
  /\ gitPc' = "Acquire"
  /\ UNCHANGED <<gitDepthCfg, gitRepo, gitTempDir, gitDir, gitArgs, gitResult>>
  /\ GitFrame

\* Acquire: os.MkdirTemp fails
MkdirTempFails ==
  /\ gitPc = "Acquire"
  /\ gitResult' = [NoSourceResult EXCEPT !.err = "creating temp directory"]
  /\ gitPc' = "done"
  /\ UNCHANGED <<gitDepthCfg, gitRepo, gitDepth, gitTempDir, gitDir, gitArgs>>
  /\ GitFrame

\* Acquire: the directory is made and the git command is started
MkdirTemp ==
  /\ gitPc = "Acquire"
  /\ gitTempDir' = GitTmpDir
  /\ gitDir' = "exists"
  /\ gitArgs' = CloneArgs(gitDepth, GitRepoURL, GitTmpDir)
  /\ gitPc' = "clone"
  /\ UNCHANGED <<gitDepthCfg, gitRepo, gitDepth, gitResult>>
  /\ GitFrame

\* Acquire: the clone fails and the directory is removed
CloneFails ==
  /\ gitPc = "clone"
  /\ gitDir' = "removed"
  /\ gitResult' = [NoSourceResult EXCEPT !.err = "git clone failed"]
  /\ gitPc' = "done"
  /\ UNCHANGED <<gitDepthCfg, gitRepo, gitDepth, gitTempDir, gitArgs>>
  /\ GitFrame

\* Acquire: the clone succeeds; the project is a Laravel one when it has an
\* artisan file or a composer.json that requires laravel/framework
CloneReturns ==
  /\ gitPc = "clone"
  /\ gitResult' = [err |-> "", RootPath |-> gitTempDir,
                   IsLaravel |-> gitRepo.artisan \/ gitRepo.composer = "laravel",
                   HasGit |-> TRUE]
  /\ gitPc' = "Cleanup"
  /\ UNCHANGED <<gitDepthCfg, gitRepo, gitDepth, gitTempDir, gitDir, gitArgs>>
  /\ GitFrame

\* GitProvider.Cleanup
GitCleanup ==
  /\ gitPc = "Cleanup"
  /\ gitDir' = IF gitTempDir # <<>> THEN "removed" ELSE gitDir
  /\ gitPc' = "done"
  /\ UNCHANGED <<gitDepthCfg, gitRepo, gitDepth, gitTempDir, gitArgs, gitResult>>
  /\ GitFrame

GitNext ==
  \/ NewGitProvider
  \/ MkdirTempFails
  \/ MkdirTemp
  \/ CloneFails
  \/ CloneReturns
  \/ GitCleanup

SpecGit == GitInit /\ [][GitNext]_vars

(***************************************************************************)
(* The reporters of the Report stage: buildReporters and the loop of Run   *)
(* that calls Generate on each.                                            *)
(***************************************************************************)
\* the names output.formats can hold: the formats, "terminal", an unknown one
FormatNames == {"json", "sarif", "md", "markdown", "terminal", "xml"}

ReportFrame ==
  UNCHANGED <<runVars, rtVars, fpVars, busVars, depVars, rosterVars, gitVars, storeVars, cmdVars, rulesVars, exampleVars, twoVars>>

ReportInit ==
  /\ RunIdle
  /\ StoreIdle
  /\ CmdIdle
  /\ RulesIdle
  /\ ExampleIdle
  /\ TwoIdle
  /\ RtIdle
  /\ FpIdle
  /\ BusNew
  /\ DepIdle
  /\ RosterIdle
  /\ GitIdle
  /\ repPc = "build"
  /\ repFormats \in ListsUpTo(FormatNames, MaxFormats)
  /\ repReporters = <<>>
  /\ repIdx = 0
  /\ repGenerated = <<>>

\* Run calls buildReporters and enters the loop
BuildReporters ==
  /\ repPc = "build"
  /\ repReporters' = buildReporters(repFormats)
  /\ repIdx' = 1
  /\ repPc' = IF Len(buildReporters(repFormats)) = 0 THEN "done" ELSE "Generate"
  /\ UNCHANGED <<repFormats, repGenerated>>
  /\ ReportFrame

\* a Generate returns, with or without an error, and the loop goes on
Generate ==
  /\ repPc = "Generate"
  /\ \E ok \in BOOLEAN :
       repGenerated' = Append(repGenerated, [format |-> repReporters[repIdx], ok |-> ok])
  /\ repIdx' = repIdx + 1
  /\ repPc' = IF repIdx < Len(repReporters) THEN "Generate" ELSE "done"
  /\ UNCHANGED <<repFormats, repReporters>>
  /\ ReportFrame

ReportNext ==
  \/ BuildReporters
  \/ Generate

SpecReport == ReportInit /\ [][ReportNext]_vars

(***************************************************************************)
(* The scan history: store.CompareLast and store.Save, as Run calls them   *)
(* scan after scan.                                                        *)
(***************************************************************************)
\* the characters of the finding keys, in byte order
KeyAlphabet == Digits \o <<"a", "b", "c", "|">>

Ord(c) == CHOOSE i \in 1..Len(KeyAlphabet) : KeyAlphabet[i] = c

\* a < b for Go strings
RECURSIVE StrLess(_, _)
StrLess(a, b) ==
  IF Len(b) = 0 THEN FALSE
  ELSE IF Len(a) = 0 THEN TRUE
  ELSE IF Ord(Head(a)) # Ord(Head(b)) THEN Ord(Head(a)) < Ord(Head(b))
  ELSE StrLess(Tail(a), Tail(b))

RECURSIVE InsertSorted(_, _)
InsertSorted(k, sorted) ==
  IF Len(sorted) = 0 THEN <<k>>
  ELSE IF StrLess(k, Head(sorted)) THEN <<k>> \o sorted
  ELSE <<Head(sorted)>> \o InsertSorted(k, Tail(sorted))

\* sort.Strings
RECURSIVE SortStrings(_)
SortStrings(keys) ==
  IF Len(keys) = 0 THEN <<>>
  ELSE InsertSorted(Head(keys), SortStrings(Tail(keys)))

\* extractFindingKeys: the keys "id|file|line" of the findings, sorted
extractFindingKeys(findings) ==
  SortStrings([i \in 1..Len(findings) |-> DedupKey(findings[i])])

\* toSet
toSet(items) == {items[i] : i \in 1..Len(items)}

\* the findings of the reports: the last two differ in ID and File and have
\* the same key
StoreFindings ==
  << [ID |-> <<"a">>, File |-> <<"b">>, Line |-> 1, Severity |-> SeverityHigh,
      Title |-> "x", Scanner |-> RulesScanner],
     [ID |-> <<"a","|","b">>, File |-> <<"c">>, Line |-> 0,
      Severity |-> SeverityCritical, Title |-> "x", Scanner |-> RulesScanner],
     [ID |-> <<"a">>, File |-> <<"b","|","c">>, Line |-> 0,
      Severity |-> SeverityInfo, Title |-> "x", Scanner |-> RulesScanner] >>

\* the findings a report can hold, after deduplicate
StoreFindingLists ==
  { <<>>, <<StoreFindings[1]>>, <<StoreFindings[2]>>,
    <<StoreFindings[3], StoreFindings[1]>> }

\* a string of n characters c
Repeat(c, n) == [i \in 1..n |-> c]

\* the projects scanned, by root path and name: the names are 41 bytes long
\* and differ in the second byte ("/", " ") and in the last one
StoreProjects ==
  { [RootPath |-> "/app",
     ProjectName |-> <<"a", "/">> \o Repeat("x", 38) \o <<"1">>],
    [RootPath |-> "/api",
     ProjectName |-> <<"a", " ">> \o Repeat("x", 38) \o <<"2">>] }

\* the record Save writes for a report
RecordOf(rep) ==
  [ProjectPath |-> rep.RootPath, ProjectName |-> rep.ProjectName,
   Timestamp |-> rep.CompletedAt, FindingCount |-> Len(rep.Findings),
   FindingIDs |-> extractFindingKeys(rep.Findings)]

\* the instants of one second: CompletedAt has a finer resolution than the
\* layout "2006-01-02T15-04-05" of the file name
TicksPerSecond == 2

\* Timestamp.Format("2006-01-02T15-04-05")
Stamp(t) == t \div TicksPerSecond

\* sanitizeName: "/" and " " become "_", the first 40 bytes are kept
sanitizeName(name) ==
  LET replaced == [i \in 1..Len(name) |->
                     IF name[i] \in {"/", " "} THEN "_" ELSE name[i]]
  IN  IF Len(replaced) > 40 THEN SubSeq(replaced, 1, 40) ELSE replaced

\* the name of the file Save writes a record to
FileName(r) == <<Stamp(r.Timestamp), sanitizeName(r.ProjectName)>>

\* ListRecords: the records of the files, the most recent first; records of
\* the same time come in any order
ListRecords(files) ==
  { l \in [1..Len(files) -> {files[i] : i \in 1..Len(files)}] :
      /\ \A i, j \in 1..Len(files) : i # j => l[i] # l[j]
      /\ \A i, j \in 1..Len(files) : i < j => l[i].Timestamp >= l[j].Timestamp }

\* the nil *ScanRecord
NoRecord ==
  [ProjectPath |-> "", ProjectName |-> <<>>, Timestamp |-> 0, FindingCount |-> 0,
   FindingIDs |-> <<>>]

\* LastRecord, were it to return the last matching record of the list
LastRecordOldest(records, projectPath) ==
  LET at == {i \in 1..Len(records) : records[i].ProjectPath = projectPath}
  IN  IF at = {} THEN NoRecord
      ELSE records[CHOOSE i \in at : \A j \in at : j <= i]

\* LastRecord: the first record of the list with the project path
LastRecord(records, projectPath) ==
  LET at == {i \in 1..Len(records) : records[i].ProjectPath = projectPath}
  IN  IF at = {} THEN NoRecord
      ELSE records[CHOOSE i \in at : \A j \in at : i <= j]

\* CompareLast, given the record LastRecord returned
DiffWith(last, rep) ==
  LET currentKeys == extractFindingKeys(rep.Findings)
      currentSet == toSet(currentKeys)
      previousSet == toSet(last.FindingIDs)
  IN  [nil |-> FALSE,
       NewFindings |-> SelectSeq(currentKeys, LAMBDA k : k \notin previousSet),
       ResolvedFindings |-> SelectSeq(last.FindingIDs, LAMBDA k : k \notin currentSet),
       TotalBefore |-> last.FindingCount,
       TotalAfter |-> Len(rep.Findings)]

StoreFrame ==
  UNCHANGED <<runVars, rtVars, fpVars, busVars, depVars, rosterVars, gitVars,
              reportVars, cmdVars, rulesVars, exampleVars, twoVars>>

StoreInit ==
  /\ RunIdle
  /\ CmdIdle
  /\ RulesIdle
  /\ ExampleIdle
  /\ TwoIdle
  /\ RtIdle
  /\ FpIdle
  /\ BusNew
  /\ DepIdle
  /\ RosterIdle
  /\ GitIdle
  /\ ReportIdle
  /\ stPc = "report"
  /\ store = <<>>
  /\ stReport = NoStoreReport
  /\ stDiff = NoDiff
  /\ stErr = FALSE
  /\ stLogged = FALSE

\* a scan reaches the Report stage and builds its report
StoreReport ==
  /\ stPc = "report"
  /\ \E project \in StoreProjects, at \in 1..MaxTime, findings \in StoreFindingLists :
       stReport' = [RootPath |-> project.RootPath, ProjectName |-> project.ProjectName,
                    CompletedAt |-> at, Findings |-> findings]
  /\ stDiff' = NoDiff
  /\ stErr' = FALSE
  /\ stLogged' = FALSE
  /\ stPc' = "CompareLast"
  /\ UNCHANGED store
  /\ StoreFrame

\* whether Run logs the diff: it is not nil and has a new or a resolved key
LogsDiff(diff) ==
  ~diff.nil /\ (Len(diff.NewFindings) > 0 \/ Len(diff.ResolvedFindings) > 0)

\* CompareLast, were Run to call it after Save has written the record of
\* the scan under way
CompareLastAfterSave ==
  /\ stPc = "CompareLast"
  /\ \E records \in ListRecords(Append(store, RecordOf(stReport))) :
       LET last == LastRecord(records, stReport.RootPath)
       IN  /\ stDiff' = IF last = NoRecord THEN NoDiff ELSE DiffWith(last, stReport)
           /\ stLogged' = LogsDiff(stDiff')
  /\ stErr' = FALSE
  /\ stPc' = "Save"
  /\ UNCHANGED <<store, stReport>>
  /\ StoreFrame

\* CompareLast returns a diff, or nil when the project has no record; Run
\* logs a diff that has a new or a resolved key
CompareLast ==
  /\ stPc = "CompareLast"
  /\ \E records \in ListRecords(store) :
       LET last == LastRecord(records, stReport.RootPath)
       IN  /\ stDiff' = IF last = NoRecord THEN NoDiff ELSE DiffWith(last, stReport)
           /\ stLogged' = LogsDiff(stDiff')
  /\ stErr' = FALSE
  /\ stPc' = "Save"
  /\ UNCHANGED <<store, stReport>>
  /\ StoreFrame

\* CompareLast fails: the store directory cannot be read
CompareLastFails ==
  /\ stPc = "CompareLast"
  /\ stDiff' = NoDiff
  /\ stErr' = TRUE
  /\ stLogged' = FALSE
  /\ stPc' = "Save"
  /\ UNCHANGED <<store, stReport>>
  /\ StoreFrame

\* store.Save writes the record to the file named after the second of its
\* time and the sanitized project name; os.WriteFile replaces a file of that
\* name (the directory lists its files by name, that is by second first);
\* the scan ends
StoreSave ==
  /\ stPc = "Save"
  /\ LET record == RecordOf(stReport)
         others == SelectSeq(store, LAMBDA r : FileName(r) # FileName(record))
     IN  store' =
           SelectSeq(others, LAMBDA r : Stamp(r.Timestamp) <= Stamp(record.Timestamp))
           \o <<record>>
           \o SelectSeq(others, LAMBDA r : Stamp(r.Timestamp) > Stamp(record.Timestamp))
  /\ stReport' = NoStoreReport
  /\ stDiff' = NoDiff
  /\ stErr' = FALSE
  /\ stLogged' = FALSE
  /\ stPc' = "report"
  /\ StoreFrame

\* store.Save fails; the scan ends
StoreSaveFails ==
  /\ stPc = "Save"
  /\ stReport' = NoStoreReport
  /\ stDiff' = NoDiff
  /\ stErr' = FALSE
  /\ stLogged' = FALSE
  /\ stPc' = "report"
  /\ UNCHANGED store
  /\ StoreFrame

StoreNext ==
  \/ StoreReport
  \/ CompareLast
  \/ CompareLastFails
  \/ StoreSave
  \/ StoreSaveFails

SpecStore == StoreInit /\ [][StoreNext]_vars

(***************************************************************************)
(* The scan command: runHeadless, runWithTUI and checkFailOn.  In the TUI  *)
(* path Run executes in a goroutine of its own while the command waits in  *)
(* tea.Program.Run, which returns when the user quits.                     *)
(***************************************************************************)
\* the values of --fail-on: unset, two severities, a word that is none
FailOns ==
  { <<>>, <<"l","o","w">>, <<"H","I","G","H">>, <<"b","o","g","u","s">> }

\* the severities of the findings of a report
ReportSeverities == {SeverityInfo, SeverityMedium, SeverityHigh}

\* checkFailOn: whether it returns an error
checkFailOn(rep) ==
  IF failOn = <<>> \/ rep.nil THEN FALSE
  ELSE \E i \in 1..Len(rep.Findings) : rep.Findings[i] >= ParseSeverity(failOn)

CmdFrame ==
  UNCHANGED <<runVars, rtVars, fpVars, busVars, depVars, rosterVars, gitVars,
              reportVars, storeVars, rulesVars, exampleVars, twoVars>>

CmdInit ==
  /\ RunIdle
  /\ RulesIdle
  /\ ExampleIdle
  /\ TwoIdle
  /\ RtIdle
  /\ FpIdle
  /\ BusNew
  /\ DepIdle
  /\ RosterIdle
  /\ GitIdle
  /\ ReportIdle
  /\ StoreIdle
  /\ cmdPc = "start"
  /\ orchPc = "idle"
  /\ cmdMode \in {"headless", "tui"}
  /\ failOn \in FailOns
  /\ cmdFindings \in ListsUpTo(ReportSeverities, MaxReportFindings)
  /\ runErr = FALSE
  /\ delivered = FALSE
  /\ finalReport = NilReport
  /\ exitCode = 0
  /\ exitWhy = ""
  /\ cmdTerminal = <<>>

\* runHeadless calls Run; runWithTUI starts the goroutine that calls Run and
\* enters tea.Program.Run
StartRun ==
  /\ cmdPc = "start"
  /\ cmdPc' = "Run"
  /\ orchPc' = "running"
  /\ UNCHANGED <<cmdMode, failOn, cmdFindings, runErr, delivered, finalReport,
                 exitCode, exitWhy>>
  /\ UNCHANGED cmdTerminal
  /\ CmdFrame

\* Run fails in Acquire: fail publishes ScanFailed and Run returns the
\* error, to runHeadless or to the goroutine of runWithTUI
RunFails ==
  /\ orchPc = "running"
  /\ cmdPc # "exited"
  /\ runErr' = TRUE
  /\ cmdTerminal' = Append(cmdTerminal, "ScanFailed")
  /\ orchPc' = IF cmdMode = "tui" THEN "failed" ELSE "returned"
  /\ UNCHANGED <<cmdPc, cmdMode, failOn, cmdFindings, delivered, finalReport,
                 exitCode, exitWhy>>
  /\ CmdFrame

\* the goroutine of runWithTUI has an error from Run and publishes
\* ScanFailed with it
GoroutinePublishesScanFailed ==
  /\ orchPc = "failed"
  /\ cmdPc # "exited"
  /\ cmdTerminal' = Append(cmdTerminal, "ScanFailed")
  /\ orchPc' = "returned"
  /\ UNCHANGED <<cmdPc, cmdMode, failOn, cmdFindings, runErr, delivered,
                 finalReport, exitCode, exitWhy>>
  /\ CmdFrame

\* Run reaches its end and publishes ScanCompleted: the handlers of
\* SubscribeAll come first (the bridge of the TUI), then the subscribers
RunPublishesScanCompleted ==
  /\ orchPc = "running"
  /\ cmdPc # "exited"
  /\ orchPc' = IF cmdMode = "tui" THEN "Send" ELSE "store"
  /\ cmdTerminal' = Append(cmdTerminal, "ScanCompleted")
  /\ UNCHANGED <<cmdPc, cmdMode, failOn, cmdFindings, runErr, delivered,
                 finalReport, exitCode, exitWhy>>
  /\ CmdFrame

\* the bridge's handler sends the event to the TUI
BridgeSends ==
  /\ orchPc = "Send"
  /\ cmdPc # "exited"
  /\ delivered' = TRUE
  /\ orchPc' = "store"
  /\ UNCHANGED <<cmdPc, cmdMode, failOn, cmdFindings, runErr, finalReport,
                 exitCode, exitWhy>>
  /\ UNCHANGED cmdTerminal
  /\ CmdFrame

\* the ScanCompleted subscriber of the command stores the report, Publish
\* returns and Run returns nil
SubscriberStores ==
  /\ orchPc = "store"
  /\ cmdPc # "exited"
  /\ finalReport' = [nil |-> FALSE, Findings |-> cmdFindings]
  /\ orchPc' = "returned"
  /\ UNCHANGED <<cmdPc, cmdMode, failOn, cmdFindings, runErr, delivered,
                 exitCode, exitWhy>>
  /\ UNCHANGED cmdTerminal
  /\ CmdFrame

\* runHeadless: Run has returned; its error is returned, or checkFailOn
\* is called next
HeadlessRunReturns ==
  /\ cmdPc = "Run"
  /\ cmdMode = "headless"
  /\ orchPc = "returned"
  /\ IF runErr
       THEN cmdPc' = "exited" /\ exitCode' = 1 /\ exitWhy' = "fatal"
       ELSE cmdPc' = "check" /\ UNCHANGED <<exitCode, exitWhy>>
  /\ UNCHANGED <<orchPc, cmdMode, failOn, cmdFindings, runErr, delivered, finalReport>>
  /\ UNCHANGED cmdTerminal
  /\ CmdFrame

\* runWithTUI: the user quits and tea.Program.Run returns, whatever the
\* goroutine of Run is doing
TuiQuits ==
  /\ cmdPc = "Run"
  /\ cmdMode = "tui"
  /\ cmdPc' = "check"
  /\ UNCHANGED <<orchPc, cmdMode, failOn, cmdFindings, runErr, delivered,
                 finalReport, exitCode, exitWhy>>
  /\ UNCHANGED cmdTerminal
  /\ CmdFrame

\* checkFailOn(finalReport) returns and the process exits
CheckFailOn ==
  /\ cmdPc = "check"
  /\ IF checkFailOn(finalReport)
       THEN exitCode' = 1 /\ exitWhy' = "findings"
       ELSE exitCode' = 0 /\ exitWhy' = ""
  /\ cmdPc' = "exited"
  /\ UNCHANGED <<orchPc, cmdMode, failOn, cmdFindings, runErr, delivered, finalReport>>
  /\ UNCHANGED cmdTerminal
  /\ CmdFrame

CmdNext ==
  \/ StartRun
  \/ RunFails
  \/ GoroutinePublishesScanFailed
  \/ RunPublishesScanCompleted
  \/ BridgeSends
  \/ SubscriberStores
  \/ HeadlessRunReturns
  \/ TuiQuits
  \/ CheckFailOn

SpecCmd == CmdInit /\ [][CmdNext]_vars

(***************************************************************************)
(* The rules scanner: Scan, evaluateRule, evaluatePattern and              *)
(* checkFileContent.  File contents are lists of lines, lines and patterns *)
(* are sequences of characters.                                            *)
(***************************************************************************)
\* strings.Contains
Contains(line, sub) ==
  \E i \in 1..(Len(line) - Len(sub) + 1) : SubSeq(line, i, i + Len(sub) - 1) = sub

\* whether regexp.Compile accepts the pattern: of the patterns used here,
\* "(" is the one it rejects
Compiles(pattern) == pattern # <<"(">>

\* Regexp.MatchString for the patterns used here that compile: they are
\* literals
MatchString(re, line) == Contains(line, re)

\* the files of the target env-files, in the order of the globs
EnvFilePaths == << <<".","e","n","v">>, <<".","e","n","v",".","e","x">> >>

\* what a file can hold; a path may also be absent
FileContents ==
  { << <<"x","a">> >>,
    << <<"b">>, <<"(",")">> >> }

\* a path is absent, or a file with some content
FileStates ==
  {[exists |-> FALSE, lines |-> <<>>]}
    \cup {[exists |-> TRUE, lines |-> c] : c \in FileContents}

\* the projects: each path with its state
Projects == [1..Len(EnvFilePaths) -> FileStates]

\* resolveTarget for env-files: the positions of the paths that exist
RECURSIVE ExistingFrom(_, _)
ExistingFrom(project, i) ==
  IF i > Len(EnvFilePaths) THEN <<>>
  ELSE (IF project[i].exists THEN <<i>> ELSE <<>>) \o ExistingFrom(project, i + 1)

resolveTarget(tgt, project) ==
  IF tgt = "env-files" THEN ExistingFrom(project, 1) ELSE <<>>

\* the patterns of the rules: regex and contains patterns over env-files
PatternDefs ==
  { [Type |-> t, Target |-> "env-files", Pattern |-> pt, Negative |-> n] :
      t \in {"regex", "contains"}, pt \in { <<"a">>, <<"(">> }, n \in BOOLEAN }

\* scanFile: the matching lines of a file, as line numbers
scanFile(lines, pat) ==
  SelectSeq([k \in 1..Len(lines) |-> k],
            LAMBDA k : IF pat.Type = "regex" THEN MatchString(pat.Pattern, lines[k])
                       ELSE Contains(lines[k], pat.Pattern))

\* buildFinding; parseSeverity of the rules package is ParseSeverity
buildFinding(rule, file, line) ==
  [ID |-> rule.ID, File |-> file, Line |-> line,
   Severity |-> ParseSeverity(rule.Severity), Title |-> rule.Title,
   Scanner |-> RulesScanner]

\* the findings of one file for a pattern that compiled
FileFindings(rule, pat, project, i) ==
  LET matches == scanFile(project[i].lines, pat)
  IN  IF pat.Negative
        THEN (IF Len(matches) = 0
                THEN <<buildFinding(rule, EnvFilePaths[i], 0)>> ELSE <<>>)
        ELSE [m \in 1..Len(matches) |-> buildFinding(rule, EnvFilePaths[i], matches[m])]

RECURSIVE ContentFrom(_, _, _, _, _)
ContentFrom(rule, pat, project, files, j) ==
  IF j > Len(files) THEN <<>>
  ELSE FileFindings(rule, pat, project, files[j])
         \o ContentFrom(rule, pat, project, files, j + 1)

\* checkFileContent, were a negative pattern to give one finding when no
\* file has a match
checkFileContentAcrossFiles(rule, pat, project) ==
  LET files == resolveTarget(pat.Target, project)
  IN  IF Len(files) = 0 THEN <<>>
      ELSE IF pat.Type = "regex" /\ ~Compiles(pat.Pattern) THEN <<>>
      ELSE IF pat.Negative
        THEN (IF \A j \in 1..Len(files) : Len(scanFile(project[files[j]].lines, pat)) = 0
                THEN <<buildFinding(rule, EnvFilePaths[files[1]], 0)>> ELSE <<>>)
      ELSE ContentFrom(rule, pat, project, files, 1)

\* checkFileContent
checkFileContent(rule, pat, project) ==
  LET files == resolveTarget(pat.Target, project)
  IN  IF Len(files) = 0 THEN <<>>
      ELSE IF pat.Type = "regex" /\ ~Compiles(pat.Pattern) THEN <<>>
      ELSE ContentFrom(rule, pat, project, files, 1)

\* evaluatePattern (file-exists patterns are not among PatternDefs)
evaluatePattern(rule, pat, project) ==
  IF pat.Type \in {"regex", "contains"} THEN checkFileContent(rule, pat, project)
  ELSE <<>>

\* evaluateRule, were an invalid regex to end the evaluation of the rule
RECURSIVE EvaluateUntilInvalid(_, _, _)
EvaluateUntilInvalid(rule, project, k) ==
  IF k > Len(rule.Patterns) THEN <<>>
  ELSE IF rule.Patterns[k].Type = "regex" /\ ~Compiles(rule.Patterns[k].Pattern)
    THEN <<>>
  ELSE <<[pattern |-> rule.Patterns[k],
          findings |-> evaluatePattern(rule, rule.Patterns[k], project)]>>
         \o EvaluateUntilInvalid(rule, project, k + 1)

evaluateRuleUntilInvalid(rule, project) == EvaluateUntilInvalid(rule, project, 1)

\* evaluateRule: per pattern, in order, the findings it gave
evaluateRule(rule, project) ==
  [k \in 1..Len(rule.Patterns) |->
     [pattern |-> rule.Patterns[k],
      findings |-> evaluatePattern(rule, rule.Patterns[k], project)]]

\* the findings of the patterns of a rule, appended in order
RECURSIVE Flatten(_)
Flatten(evaluated) ==
  IF Len(evaluated) = 0 THEN <<>>
  ELSE Head(evaluated).findings \o Flatten(Tail(evaluated))

\* the rules: one with patterns to choose, enabled or not, and one that
\* finds the lines holding "b"
RuleSets ==
  { << [ID |-> <<"R","1">>, Title |-> "r1", Severity |-> <<"h","i","g","h">>,
        Enabled |-> en, Patterns |-> ps],
       [ID |-> <<"R","2">>, Title |-> "r2", Severity |-> <<"l","o","w">>,
        Enabled |-> TRUE,
        Patterns |-> << [Type |-> "contains", Target |-> "env-files",
                         Pattern |-> <<"b">>, Negative |-> FALSE] >>] >> :
    en \in BOOLEAN, ps \in ListsUpTo(PatternDefs, MaxPatterns) \ {<<>>} }

RulesFrame ==
  UNCHANGED <<runVars, rtVars, fpVars, busVars, depVars, rosterVars, gitVars,
              reportVars, storeVars, cmdVars, exampleVars, twoVars>>

RulesInit ==
  /\ RunIdle
  /\ ExampleIdle
  /\ TwoIdle
  /\ RtIdle
  /\ FpIdle
  /\ BusNew
  /\ DepIdle
  /\ RosterIdle
  /\ GitIdle
  /\ ReportIdle
  /\ StoreIdle
  /\ CmdIdle
  /\ rsPc = "Scan"
  /\ rsRules \in RuleSets
  /\ rsProject \in Projects
  /\ rsRule = 0
  /\ rsLog = <<>>
  /\ rsFindings = <<>>
  /\ rsEmitted = <<>>
  /\ rsResult = NoScanResult

\* Scan is called
RulesScanBegins ==
  /\ rsPc = "Scan"
  /\ rsRule' = 1
  /\ rsPc' = "rule"
  /\ UNCHANGED <<rsRules, rsProject, rsLog, rsFindings, rsEmitted, rsResult>>
  /\ RulesFrame

\* one pass of the loop of Scan: a disabled rule is skipped, an enabled one
\* is evaluated and its findings are appended and emitted
RulesScanRule ==
  /\ rsPc = "rule"
  /\ rsRule <= Len(rsRules)
  /\ LET rule == rsRules[rsRule]
         evaluated == IF rule.Enabled THEN evaluateRule(rule, rsProject) ELSE <<>>
     IN  /\ rsLog' = rsLog \o [k \in 1..Len(evaluated) |->
                                 [rule |-> rsRule, pattern |-> evaluated[k].pattern,
                                  findings |-> evaluated[k].findings]]
         /\ rsFindings' = rsFindings \o Flatten(evaluated)
         /\ rsEmitted' = rsEmitted \o Flatten(evaluated)
  /\ rsRule' = rsRule + 1
  /\ UNCHANGED <<rsPc, rsRules, rsProject, rsResult>>
  /\ RulesFrame

\* Scan returns the findings and a nil error
RulesScanReturns ==
  /\ rsPc = "rule"
  /\ rsRule > Len(rsRules)
  /\ rsResult' = [returned |-> TRUE, err |-> "", findings |-> rsFindings]
  /\ rsPc' = "done"
  /\ UNCHANGED <<rsRules, rsProject, rsRule, rsLog, rsFindings, rsEmitted>>
  /\ RulesFrame

RulesNext ==
  \/ RulesScanBegins
  \/ RulesScanRule
  \/ RulesScanReturns

SpecRules == RulesInit /\ [][RulesNext]_vars

(***************************************************************************)
(* The env scanner: checkEnvExample, readEnvFile and findLine.  A line of  *)
(* .env.example is a key and the value readEnvFile makes of the text after *)
(* the "=" (trimmed, quotes removed); values are sequences of characters.  *)
(***************************************************************************)
sensitiveKeys ==
  <<"DB_PASSWORD", "MAIL_PASSWORD", "AWS_SECRET_ACCESS_KEY", "REDIS_PASSWORD",
    "PUSHER_APP_SECRET">>

\* the keys a line can assign: the sensitive ones and one that is not
EnvKeys == {sensitiveKeys[i] : i \in 1..Len(sensitiveKeys)} \cup {"APP_NAME"}

\* the values a line can assign
EnvValues ==
  { <<>>,
    <<"n","u","l","l">>,
    <<"s","e","c","r","e","t">>,
    <<"P","a","s","s","w","o","r","d">>,
    <<"c","h","a","n","g","e","m","e">>,
    <<"y","o","u","r","_","p","a","s","s","w","o","r","d","_","h","e","r","e">>,
    <<"y","o","u","r","_","s","e","c","r","e","t","_","h","e","r","e">>,
    <<"a","b","c","1","2","3">>,
    <<"s","3","c","r","3","t","!","7">> }

\* the files: unreadable, or up to MaxEnvLines assignments
ExampleFiles ==
  {[readable |-> FALSE, lines |-> <<>>]}
    \cup {[readable |-> TRUE, lines |-> ls] :
            ls \in ListsUpTo([key : EnvKeys, val : EnvValues], MaxEnvLines)}

\* readEnvFile: the map of the assignments, a later one replacing an earlier
RECURSIVE readEnvFile(_)
readEnvFile(lines) ==
  IF Len(lines) = 0 THEN NoVars
  ELSE LET before == readEnvFile(SubSeq(lines, 1, Len(lines) - 1))
           last == lines[Len(lines)]
       IN  [k \in DOMAIN before \cup {last.key} |->
              IF k = last.key THEN last.val ELSE before[k]]

\* findLine: the number of the first line assigning the key, or 0
findLine(lines, key) ==
  IF \E n \in 1..Len(lines) : lines[n].key = key
    THEN CHOOSE n \in 1..Len(lines) :
           /\ lines[n].key = key
           /\ \A m \in 1..(n - 1) : lines[m].key # key
    ELSE 0

\* the values checkEnvExample skips as obvious placeholders
ObviousPlaceholders ==
  {<<"n","u","l","l">>, <<"s","e","c","r","e","t">>, <<"p","a","s","s","w","o","r","d">>, <<"y","o","u","r","_","p","a","s","s","w","o","r","d","_","h","e","r","e">>, <<"c","h","a","n","g","e","m","e">>}

\* the finding ENV-008 for a key
Env008(lines, key) ==
  [ID |-> <<"E","N","V","-","0","0","8">>,
   File |-> <<".","e","n","v",".","e","x","a","m","p","l","e">>,
   Line |-> findLine(lines, key), Severity |-> SeverityMedium,
   Title |-> key, Scanner |-> EnvScanner]

\* one pass of the loop of checkEnvExample for a key: the findings it adds
CheckKey(envVars, lines, key) ==
  IF key \notin DOMAIN envVars \/ envVars[key] = <<>> THEN <<>>
  ELSE IF ToLower(envVars[key]) \in ObviousPlaceholders THEN <<>>
  ELSE IF Len(envVars[key]) > 6 THEN <<Env008(lines, key)>>
  ELSE <<>>

ExampleFrame ==
  UNCHANGED <<runVars, rtVars, fpVars, busVars, depVars, rosterVars, gitVars,
              reportVars, storeVars, cmdVars, rulesVars, twoVars>>

ExampleInit ==
  /\ RunIdle
  /\ TwoIdle
  /\ RtIdle
  /\ FpIdle
  /\ BusNew
  /\ DepIdle
  /\ RosterIdle
  /\ GitIdle
  /\ ReportIdle
  /\ StoreIdle
  /\ CmdIdle
  /\ RulesIdle
  /\ exPc = "checkEnvExample"
  /\ exFile \in ExampleFiles
  /\ exVars = NoVars
  /\ exKey = 0
  /\ exFindings = <<>>

\* checkEnvExample is called and .env.example cannot be read: it returns nil
ReadEnvFileFails ==
  /\ exPc = "checkEnvExample"
  /\ ~exFile.readable
  /\ exPc' = "done"
  /\ UNCHANGED <<exFile, exVars, exKey, exFindings>>
  /\ ExampleFrame

\* checkEnvExample is called and reads .env.example
ReadEnvFileReturns ==
  /\ exPc = "checkEnvExample"
  /\ exFile.readable
  /\ exVars' = readEnvFile(exFile.lines)
  /\ exKey' = 1
  /\ exPc' = "key"
  /\ UNCHANGED <<exFile, exFindings>>
  /\ ExampleFrame

\* one pass of the loop over sensitiveKeys
CheckSensitiveKey ==
  /\ exPc = "key"
  /\ exKey <= Len(sensitiveKeys)
  /\ exFindings' = exFindings \o CheckKey(exVars, exFile.lines, sensitiveKeys[exKey])
  /\ exKey' = exKey + 1
  /\ UNCHANGED <<exPc, exFile, exVars>>
  /\ ExampleFrame

\* checkEnvExample returns its findings
CheckEnvExampleReturns ==
  /\ exPc = "key"
  /\ exKey > Len(sensitiveKeys)
  /\ exPc' = "done"
  /\ UNCHANGED <<exFile, exVars, exKey, exFindings>>
  /\ ExampleFrame

ExampleNext ==
  \/ ReadEnvFileFails
  \/ ReadEnvFileReturns
  \/ CheckSensitiveKey
  \/ CheckEnvExampleReturns

SpecExample == ExampleInit /\ [][ExampleNext]_vars

(***************************************************************************)
(* Two scans of one project with one configuration: the first is given     *)
(* --update-baseline P (and possibly --baseline), the second --baseline P. *)
(* The scanners return the same findings in both.                          *)
(***************************************************************************)
\* Post-Process, were the baseline left out of it
PostProcessNoBaseline(all, minSeverity, b) ==
  filterBySeverity(deduplicate(all), ParseSeverity(minSeverity))

\* Post-Process of Run: deduplicate, filterBySeverity, Baseline.Filter
PostProcess(all, minSeverity, b) ==
  BaselineFilter(b, filterBySeverity(deduplicate(all), ParseSeverity(minSeverity))).filtered

\* the file at P before the first scan: none, or one an earlier scan saved
FilesAtP ==
  { NoFile,
    BaselineSave(<< [ID |-> <<"a">>, File |-> <<"b">>, Line |-> 1,
                     Severity |-> SeverityHigh, Title |-> "x",
                     Scanner |-> RulesScanner] >>) }

\* the file another path holds
OtherFile == BaselineSave(<<EnvFinding>>)

TwoFrame ==
  UNCHANGED <<runVars, rtVars, fpVars, busVars, depVars, rosterVars, gitVars,
              reportVars, storeVars, cmdVars, rulesVars, exampleVars>>

TwoInit ==
  /\ RunIdle
  /\ RtIdle
  /\ FpIdle
  /\ BusNew
  /\ DepIdle
  /\ RosterIdle
  /\ GitIdle
  /\ ReportIdle
  /\ StoreIdle
  /\ CmdIdle
  /\ RulesIdle
  /\ ExampleIdle
  /\ twPc = "loadA"
  /\ twFile \in FilesAtP
  /\ twFlag \in {"", "P", "other"}
  /\ twSeverity \in {<<>>, <<"H","I","G","H">>}
  /\ twScanned \in ListsUpTo(Findings, MaxBaselineLen)
  /\ twBaselineA = NoBaseline
  /\ twReportA = <<>>
  /\ twBaselineB = NoBaseline
  /\ twReportB = <<>>

\* the first scan: the command loads the file --baseline names, if any
LoadForFirstScan ==
  /\ twPc = "loadA"
  /\ ~(twFlag = "P" /\ ~twFile.exists)
  /\ twBaselineA' = CASE twFlag = "" -> NoBaseline
                      [] twFlag = "P" -> BaselineLoad(twFile)
                      [] OTHER -> BaselineLoad(OtherFile)
  /\ twPc' = "runA"
  /\ UNCHANGED <<twFile, twFlag, twSeverity, twScanned, twReportA, twBaselineB,
                 twReportB>>
  /\ TwoFrame

\* the first scan: the file --baseline names does not exist, the command
\* returns "loading baseline" and no scan runs
LoadForFirstScanFails ==
  /\ twPc = "loadA"
  /\ twFlag = "P" /\ ~twFile.exists
  /\ twPc' = "failed"
  /\ UNCHANGED <<twFile, twFlag, twSeverity, twScanned, twBaselineA, twReportA,
                 twBaselineB, twReportB>>
  /\ TwoFrame

\* the first scan: Run from the scanner loop to the report
FirstScanReports ==
  /\ twPc = "runA"
  /\ twReportA' = PostProcess(twScanned, twSeverity, twBaselineA)
  /\ twPc' = "saveA"
  /\ UNCHANGED <<twFile, twFlag, twSeverity, twScanned, twBaselineA, twBaselineB,
                 twReportB>>
  /\ TwoFrame

\* the first scan: baseline.Save(o.baselinePath, allFindings) writes P, or
\* fails and leaves it as it was
FirstScanSaves ==
  /\ twPc = "saveA"
  /\ \E ok \in BOOLEAN :
       /\ twFile' = IF ok THEN BaselineSave(twReportA) ELSE twFile
       /\ twPc' = IF ok THEN "loadB" ELSE "unsaved"
  /\ UNCHANGED <<twFlag, twSeverity, twScanned, twBaselineA, twReportA,
                 twBaselineB, twReportB>>
  /\ TwoFrame

\* the second scan: the command loads P
LoadForSecondScan ==
  /\ twPc = "loadB"
  /\ twFile.exists
  /\ twBaselineB' = BaselineLoad(twFile)
  /\ twPc' = "runB"
  /\ UNCHANGED <<twFile, twFlag, twSeverity, twScanned, twBaselineA, twReportA,
                 twReportB>>
  /\ TwoFrame

\* the second scan: Run from the scanner loop to the report
SecondScanReports ==
  /\ twPc = "runB"
  /\ twReportB' = PostProcess(twScanned, twSeverity, twBaselineB)
  /\ twPc' = "done"
  /\ UNCHANGED <<twFile, twFlag, twSeverity, twScanned, twBaselineA, twReportA,
                 twBaselineB>>
  /\ TwoFrame

TwoNext ==
  \/ LoadForFirstScan
  \/ LoadForFirstScanFails
  \/ FirstScanReports
  \/ FirstScanSaves
  \/ LoadForSecondScan
  \/ SecondScanReports

SpecTwoScans == TwoInit /\ [][TwoNext]_vars

(***************************************************************************)
(* Properties of Run.                                                      *)
(***************************************************************************)
\* the last event published
LastEvent == events[Len(events)]

Terminal(e) == e.type \in {"ScanCompleted", "ScanFailed"}

\* the positions of the events of the given types
Positions(types) == {i \in 1..Len(events) : events[i].type \in types}

\* the elements of a list
Elems(l) == {l[i] : i \in 1..Len(l)}

\* whether two findings agree on (ID, File, Line)
SameTriple(f, g) == f.ID = g.ID /\ f.File = g.File /\ f.Line = g.Line

\* C1: every execution of Run publishes exactly one terminal event:
\* ScanCompleted, carrying the report, when Acquire succeeded, ScanFailed,
\* carrying the error, when Acquire failed; while Run executes none is
\* published, and no event follows the terminal one.
C1_OneTerminalEvent ==
  /\ \A i \in 1..Len(events) : Terminal(events[i]) => i = Len(events)
  /\ result = "running" => Positions({"ScanCompleted", "ScanFailed"}) = {}
  /\ result # "running" => Len(events) > 0 /\ Terminal(LastEvent)
  /\ (result # "running" /\ acquired = "ok") =>
       /\ LastEvent.type = "ScanCompleted"
       /\ LastEvent.report.built
       /\ LastEvent.report = report
  /\ (result # "running" /\ acquired = "error") =>
       /\ LastEvent.type = "ScanFailed"
       /\ LastEvent.msg # ""

\* C1 witness: Run has returned after a failed Acquire, ScanFailed last
C1_Witness ==
  /\ result = "error"
  /\ acquired = "error"
  /\ LastEvent.type = "ScanFailed"
  /\ Len(events) >= 3

\* C2: Run returns an error exactly when Acquire failed; whatever failed
\* after a successful Acquire (rule load, resolvers, scanners, reporters,
\* history store, baseline save), Run has built the report, published
\* ScanCompleted and returned nil.
C2_OnlyProviderFailureAborts ==
  result # "running" =>
    /\ (result = "error") <=> (acquired = "error")
    /\ acquired = "ok" =>
         /\ result = "nil"
         /\ report.built
         /\ Positions({"ScanCompleted"}) # {}
         /\ Positions({"ScanFailed"}) = {}

\* C2 witness: Run returned nil although a scanner failed and the baseline
\* could not be saved
C2_Witness ==
  /\ result = "nil"
  /\ DependencyScanner \in DOMAIN scannerErrors
  /\ \E i \in 1..Len(events) : events[i].msg = "Failed to save baseline"

\* C3 (as claimed): a run whose ctx was cancelled before it finished has
\* published ScanFailed and has not published ScanCompleted.
C3_CancelledRunPublishesScanFailed ==
  (result # "running" /\ ctxCancelled) =>
    /\ Positions({"ScanFailed"}) # {}
    /\ Positions({"ScanCompleted"}) = {}

\* the scan and stage events of a run whose provider succeeds, in order
ExpectedStageOrder ==
  << <<"ScanStarted", "">>,
     <<"StageStarted", "Provider">>, <<"StageCompleted", "Provider">>,
     <<"StageStarted", "Resolvers">>, <<"StageCompleted", "Resolvers">>,
     <<"StageStarted", "Scanners">>, <<"StageCompleted", "Scanners">>,
     <<"StageStarted", "Post-Process">>, <<"StageCompleted", "Post-Process">>,
     <<"StageStarted", "Report">>, <<"StageCompleted", "Report">>,
     <<"ScanCompleted", "">> >>

\* the scan and stage events published so far, as (type, stage)
StageTrace ==
  LET sel == SelectSeq(events, LAMBDA e :
               e.type \in {"ScanStarted", "StageStarted", "StageCompleted",
                           "ScanCompleted"})
  IN  [i \in 1..Len(sel) |-> <<sel[i].type, sel[i].stage>>]

\* C4: the scan and stage events are published in the order ScanStarted,
\* Stage(Provider), ..., Stage(Report), ScanCompleted, each once: at every
\* moment they are a prefix of that order, in a finished run whose provider
\* succeeded they are all of it, and at most one stage is open.
C4_StageOrder ==
  /\ Len(StageTrace) <= Len(ExpectedStageOrder)
  /\ \A i \in 1..Len(StageTrace) : StageTrace[i] = ExpectedStageOrder[i]
  /\ (result # "running" /\ acquired = "ok") => StageTrace = ExpectedStageOrder
  /\ Cardinality(Positions({"StageStarted"}))
       - Cardinality(Positions({"StageCompleted"})) \in {0, 1}

\* C4 witness: a finished run whose provider succeeded, with log events
\* between its stage events
C4_Witness ==
  /\ result = "nil"
  /\ Len(events) > Len(ExpectedStageOrder) + 2
  /\ Positions({"LogMessage"}) # {}

\* the events of the scanners' windows, in order
Lifecycle ==
  SelectSeq(events, LAMBDA e :
    e.type \in {"ScannerStarted", "FindingDiscovered", "ScannerCompleted",
                "ScannerFailed"})

\* the scanner an event of a window is about
ScannerOf(e) == IF e.type = "FindingDiscovered" THEN e.finding.Scanner ELSE e.name

C6_ScannerFailureIsolation ==
  /\ DOMAIN scannerErrors =
       {events[i].name : i \in Positions({"ScannerFailed"})}
  /\ \A i \in Positions({"ScannerFailed"}) :
       scannerErrors[events[i].name] = events[i].msg
  /\ Elems(scannersRun) \cap DOMAIN scannerErrors = {}
  /\ \A k \in 1..Len(allFindings) :
       allFindings[k].Scanner \notin DOMAIN scannerErrors
  /\ report.built =>
       /\ \A n \in Elems(scanners) :
            \E i \in Positions({"ScannerStarted"}) : events[i].name = n
       /\ report.ScannersRun =
            SelectSeq(scanners, LAMBDA n : n \notin DOMAIN scannerErrors)
       /\ report.ScannerErrors = scannerErrors
       /\ \A k \in 1..Len(report.Findings) :
            report.Findings[k].Scanner \notin DOMAIN scannerErrors

\* C6 witness: the dependency scanner failed and the rules scanner, later
\* in the roster, ran and is listed in the report
C6_Witness ==
  /\ report.built
  /\ DependencyScanner \in DOMAIN scannerErrors
  /\ RulesScanner \in Elems(report.ScannersRun)
  /\ EnvScanner \in Elems(report.ScannersRun)

\* C7: the report carried by ScanCompleted holds no two findings with the
\* same (ID, File, Line).
C7_ReportTriplesDistinct ==
  \A i \in Positions({"ScanCompleted"}) :
    LET fs == events[i].report.Findings
    IN  \A a, b \in 1..Len(fs) : SameTriple(fs[a], fs[b]) => a = b

\* C7 witness: the scanners returned two findings with one triple and the
\* run has published its report
C7_Witness ==
  /\ result = "nil"
  /\ \E a, b \in 1..Len(scanned) : a < b /\ SameTriple(scanned[a], scanned[b])
  /\ Len(LastEvent.report.Findings) >= 1

\* the configured minimum: the level cfg.Severity names, Info otherwise
ConfiguredMinimum ==
  CASE cfg.Severity = <<"l", "o", "w">> -> 1
    [] cfg.Severity = <<"M", "e", "d", "i", "u", "m">> -> 2
    [] cfg.Severity = <<"H", "I", "G", "H">> -> 3
    [] cfg.Severity = <<"c", "r", "i", "t", "i", "c", "a", "l">> -> 4
    [] OTHER -> 0

\* C8: every finding of the report is at or above the configured minimum,
\* and every deduplicated finding at or above it that the baseline does not
\* hold is in the report.
C8_SeverityFloor ==
  result = "nil" =>
    LET fs == LastEvent.report.Findings
        deduped == deduplicate(scanned)
    IN  /\ \A k \in 1..Len(fs) : fs[k].Severity >= ConfiguredMinimum
        /\ \A k \in 1..Len(deduped) :
             (/\ deduped[k].Severity >= ConfiguredMinimum
              /\ Fingerprint(deduped[k]) \notin baseline.fingerprints)
               => InSeq(deduped[k], fs)

\* C8 witness: with the minimum at High, a finding below it was dropped and
\* a finding at it was kept
C8_Witness ==
  /\ result = "nil"
  /\ ConfiguredMinimum = 3
  /\ \E k \in 1..Len(scanned) : scanned[k].Severity < 3
  /\ \E k \in 1..Len(report.Findings) : report.Findings[k].Severity = 3

\* C9: with a baseline attached, the findings of the report are exactly
\* the deduplicated, severity-filtered findings whose fingerprint is not a
\* fingerprint of a baseline entry, in their original order.
C9_BaselineSuppression ==
  (result = "nil" /\ baseline.attached) =>
    LastEvent.report.Findings =
      SelectSeq(filterBySeverity(deduplicate(scanned), ConfiguredMinimum),
                LAMBDA f : \A i \in 1..Len(baseline.Entries) :
                             baseline.Entries[i].fingerprint # Fingerprint(f))

\* C9 witness: a baseline is attached, one finding was suppressed by it and
\* another one is reported
C9_Witness ==
  /\ result = "nil"
  /\ baseline.attached
  /\ ConfiguredMinimum = 0
  /\ Len(report.Findings) >= 1
  /\ Len(report.Findings) < Len(deduplicate(scanned))

\* C10: a baseline saved from a list of findings and loaded again
\* suppresses every finding of that list: Filter keeps none and counts all.
C10_SaveLoadFilterSuppressesAll ==
  rtPc = "done" => rtFiltered = <<>> /\ rtSuppressed = Len(rtFindings)

\* C10 witness: the round trip was made with a list that repeats a finding
C10_Witness ==
  /\ rtPc = "done"
  /\ Len(rtFindings) >= 2
  /\ rtFindings[1] = rtFindings[2]
  /\ rtSuppressed = Len(rtFindings)

\* C11: the fingerprint of a finding, and whether the baseline suppresses
\* it, are the same after any edits of its title, description, severity,
\* category, scanner, snippet, remediation and references as before them.
C11_FingerprintIgnoresOtherAttributes ==
  /\ fpLast.fingerprint = fpFirst.fingerprint
  /\ fpLast.baselined = fpFirst.baselined

\* C11 witness: a baselined finding, looked up after its title, severity
\* and description were edited
C11_Witness ==
  /\ fpPc = "looked"
  /\ fpLast.baselined
  /\ fpFinding.Title = "y"
  /\ fpFinding.Severity = SeverityInfo
  /\ fpFinding.Description = "d"
  /\ fpFinding.References = <<"u">>

\* ContextResolved is published at most once, after the Resolve calls and
\* the messages about their failures, before any ScannerRegistered and
\* ScannerStarted, of which there is none without it
ContextResolvedInPlace ==
  /\ Cardinality(Positions({"ContextResolved"})) <= 1
  /\ Positions({"ContextResolved"}) # {} => pc \notin {"start", "Acquire", "Resolve"}
  /\ \A i \in Positions({"ContextResolved"}) :
       /\ \A j \in Positions({"ScannerRegistered", "ScannerStarted"}) : i < j
       /\ \A j \in 1..Len(events) :
            events[j].msg = "Resolver failed" => j < i
  /\ Positions({"ScannerRegistered", "ScannerStarted"}) # {}
       => Positions({"ContextResolved"}) # {}

\* C15 (as claimed): every run publishes ContextResolved exactly once,
\* after all resolvers have run and before the first ScannerRegistered or
\* ScannerStarted.
C15_ContextResolvedInEveryRun ==
  /\ ContextResolvedInPlace
  /\ result # "running" => Cardinality(Positions({"ContextResolved"})) = 1

\* C15 (amended): every run whose Acquire succeeds publishes
\* ContextResolved exactly once, after all resolvers have run, failed or
\* not, and before the first ScannerRegistered or ScannerStarted; a run
\* whose Acquire fails does not publish it.
C15_ContextResolvedOnceAfterAcquire ==
  /\ ContextResolvedInPlace
  /\ (result # "running" /\ acquired = "ok")
       => Cardinality(Positions({"ContextResolved"})) = 1
  /\ acquired = "error" => Positions({"ContextResolved"}) = {}

\* C15 witness: a finished run in which a resolver failed, ContextResolved
\* was published and scanners were registered and started
C15_Witness ==
  /\ result = "nil"
  /\ \E j \in 1..Len(events) : events[j].msg = "Resolver failed"
  /\ Positions({"ContextResolved"}) # {}
  /\ Positions({"ScannerRegistered"}) # {}
  /\ Positions({"ScannerStarted"}) # {}

(***************************************************************************)
(* Properties of the event bus.                                            *)
(***************************************************************************)
\* the handlers invoked with the event, in the order of their invocation
InvokedWith(id) ==
  LET sel == SelectSeq(busLog, LAMBDA c : c.event = id)
  IN  [k \in 1..Len(sel) |-> sel[k].handler]

\* whether list p is a prefix of list l
IsPrefix(p, l) == Len(p) <= Len(l) /\ \A k \in 1..Len(p) : p[k] = l[k]

\* C12: a Publish on a bus that is not closed invokes every wildcard
\* handler once, in registration order, then every handler of the event's
\* type once, in registration order, and no other handler, and all these
\* invocations are over when it returns.
C12_PublishOrder ==
  \A g \in Goroutines :
    LET me == busGo[g]
        due == allHandlers \o subscribers[me.type]
    IN  /\ (me.pc = "all") => IsPrefix(InvokedWith(me.id), allHandlers)
        /\ (me.pc = "typed") =>
             /\ IsPrefix(allHandlers, InvokedWith(me.id))
             /\ IsPrefix(InvokedWith(me.id), due)
        /\ (me.pc = "RUnlock" /\ ~closed) => InvokedWith(me.id) = due

\* C12 witness: a Publish is about to return after a wildcard handler that
\* was registered after the handler of the event's type, a handler of the
\* other type being registered too
C12_Witness ==
  \E g \in Goroutines :
    /\ busGo[g].pc = "RUnlock"
    /\ ~closed
    /\ Len(allHandlers) = 1
    /\ Len(subscribers[busGo[g].type]) = 1
    /\ \E t \in EventTypes : t # busGo[g].type /\ Len(subscribers[t]) = 1
    /\ Len(InvokedWith(busGo[g].id)) = 2

\* C13 (as claimed): the handler invocations for one event do not
\* interleave with those for another event, and all handlers are invoked
\* with the events in one order.
C13_PublishesSerialized ==
  /\ \A i, j, k \in 1..Len(busLog) :
       (i < j /\ j < k /\ busLog[i].event = busLog[k].event)
         => busLog[j].event = busLog[i].event
  /\ \A i, j, k, l \in 1..Len(busLog) :
       (/\ busLog[i].handler = busLog[j].handler
        /\ busLog[k].handler = busLog[l].handler
        /\ busLog[i].event = busLog[k].event
        /\ busLog[j].event = busLog[l].event
        /\ i < j) => k <= l

\* C14: no handler is invoked once a Close has returned; a Publish that
\* starts after that invokes none; no Publish is inside its loops when a
\* Close has returned; after one Close or more the bus is closed.
C14_CloseIsFinal ==
  /\ \A k \in 1..Len(busLog) : busLog[k].closes = 0
  /\ \A g \in Goroutines :
       busGo[g].afterClose => busGo[g].pc \in {"RLock", "RUnlock"}
  /\ busCloses > 0 =>
       /\ closed
       /\ \A g \in Goroutines : busGo[g].pc \notin {"all", "typed"}

\* C14 witness: Close has returned twice, handlers were invoked before, and
\* a Publish that started afterwards is about to return
C14_Witness ==
  /\ busCloses = 2
  /\ busLog # <<>>
  /\ allHandlers # <<>>
  /\ \E g \in Goroutines : busGo[g].afterClose /\ busGo[g].pc = "RUnlock"

(***************************************************************************)
(* Properties of the dependency scanner.                                   *)
(***************************************************************************)
\* the requests of a kind, in the order they were sent
RequestsOf(kind) == SelectSeq(depRequests, LAMBDA r : r.kind = kind)

\* whether a batch request has failed
BatchFailed == \E k \in 1..Len(depRequests) :
                 depRequests[k].kind = "batch" /\ depRequests[k].failure # ""

\* the findings published by FindingDiscovered, in order
Discovered ==
  LET sel == SelectSeq(events, LAMBDA e : e.type = "FindingDiscovered")
  IN  [k \in 1..Len(sel) |-> sel[k].finding]

\* C16: when a batch request fails, in the first or a later batch, the
\* dependency scanner is out of Scan with that request as its last one, no
\* detail request was sent, no FindingDiscovered was published and no
\* finding was returned; Run has recorded the scanner in scannerErrors and
\* published ScannerFailed, and the run ends with ScanCompleted and nil.
C16_BatchFailureFailsScannerOnly ==
  BatchFailed =>
    /\ pc \notin {"DepBatch", "DepDetail"}
    /\ depRequests[Len(depRequests)].kind = "batch"
    /\ depRequests[Len(depRequests)].failure # ""
    /\ RequestsOf("detail") = <<>>
    /\ Discovered = <<>>
    /\ found = <<>> /\ allFindings = <<>> /\ scanned = <<>>
    /\ DependencyScanner \in DOMAIN scannerErrors
    /\ DependencyScanner \notin Elems(scannersRun)
    /\ \E i \in Positions({"ScannerFailed"}) : events[i].name = DependencyScanner
    /\ Positions({"ScanFailed"}) = {}
    /\ result # "running" =>
         /\ result = "nil"
         /\ LastEvent.type = "ScanCompleted"
         /\ DependencyScanner \in DOMAIN LastEvent.report.ScannerErrors
         /\ LastEvent.report.Findings = <<>>

\* C16 witness: the second batch request failed after the first one had
\* named an affected package, and the run has ended with ScanCompleted
C16_Witness ==
  /\ Len(depRequests) = 2
  /\ depRequests[1].failure = ""
  /\ depRequests[2].failure = "status"
  /\ depAffected # <<>>
  /\ result = "nil"
  /\ LastEvent.type = "ScanCompleted"

RECURSIVE FindingsOf(_, _)
\* the findings of the detail requests from position i on that succeeded
FindingsOf(reqs, i) ==
  IF i > Len(reqs) THEN <<>>
  ELSE (IF reqs[i].failure # "" THEN <<>>
        ELSE [k \in 1..Len(reqs[i].vulns) |->
                vulnToFinding(DependencyScanner, reqs[i].packages[1].name,
                              reqs[i].packages[1].version, reqs[i].vulns[k])])
       \o FindingsOf(reqs, i + 1)

\* C17: a detail request that fails does not end the detail loop and does
\* not fail the scan: every affected package is asked about, in order, the
\* findings are those of the requests that succeeded, and Scan returns
\* them with a nil error.
C17_DetailFailureSkipsPackage ==
  LET det == RequestsOf("detail")
      asked == [k \in 1..Len(det) |-> det[k].packages[1]]
  IN  /\ pc = "DepDetail" =>
           /\ asked = SubSeq(depAffected, 1, depAt - 1)
           /\ found = FindingsOf(det, 1)
      /\ det # <<>> => DependencyScanner \notin DOMAIN scannerErrors
      /\ (det # <<>> /\ pc # "DepDetail") =>
           /\ asked = depAffected
           /\ scanned = FindingsOf(det, 1)
           /\ Discovered = FindingsOf(det, 1)
           /\ DependencyScanner \in Elems(scannersRun)

\* C17 witness: a detail request failed, a later one returned advisories,
\* and Scan has returned
C17_Witness ==
  LET det == RequestsOf("detail")
  IN  /\ pc \notin {"DepBatch", "DepDetail"}
      /\ \E j, k \in 1..Len(det) :
           /\ j < k
           /\ det[j].failure = "body"
           /\ det[k].failure = ""
           /\ det[k].vulns # <<>>
      /\ scanned # <<>>
      /\ result = "nil"

\* the versions the advisory service is asked about: the installed version
\* without a leading "v" and then without a leading "V"; none for a dev
\* version
NormalizedInstalled ==
  [p \in {"laravel/framework", "guzzlehttp/guzzle", "acme/tool"} |->
     CASE p = "laravel/framework" -> <<"1", "0">>
       [] p = "guzzlehttp/guzzle" -> <<"7">>
       [] OTHER -> <<"2">>]

\* whether the package and version are an installed package at its
\* normalized version
IsInstalled(name, version) ==
  /\ name \in projectCtx.InstalledPackages
  /\ name \in DOMAIN NormalizedInstalled
  /\ version = NormalizedInstalled[name]

\* C18: every request of the dependency scanner and every finding it
\* returns or emits is about an installed package at the normalized form of
\* its installed version, whatever the advisory service answers.
C18_OnlyInstalledPackages ==
  /\ \A k \in 1..Len(depRequests) : \A j \in 1..Len(depRequests[k].packages) :
       IsInstalled(depRequests[k].packages[j].name,
                   depRequests[k].packages[j].version)
  /\ \A k \in 1..Len(depAffected) :
       IsInstalled(depAffected[k].name, depAffected[k].version)
  /\ \A f \in Elems(found) \cup Elems(Discovered) \cup Elems(scanned)
              \cup Elems(report.Findings) :
       IsInstalled(f.Title[4], f.Title[6])

\* C18 witness: a batch answer held more results than queries, and a
\* finding about the package installed at "vV2" is in the report
C18_Witness ==
  /\ \E k \in 1..Len(depRequests) :
       /\ depRequests[k].kind = "batch"
       /\ depRequests[k].results > Len(depRequests[k].packages)
  /\ \E k \in 1..Len(report.Findings) :
       /\ report.Findings[k].Title[4] = "acme/tool"
       /\ report.Findings[k].Title[6] = <<"2">>
  /\ result = "nil"


(***************************************************************************)
(* The scanner roster                                                      *)
(***************************************************************************)
\* the names of a list in lower case
LowerNames(l) == {ToLower(l[i]) : i \in 1..Len(l)}

\* C19: once the roster is filtered, a non-empty enable list alone decides:
\* the scanners kept are exactly the built scanners whose name equals an
\* enable entry ignoring case, whatever the disable list holds; with an
\* empty enable list they are exactly the built scanners whose name equals
\* no disable entry ignoring case.
C19_EnableListAuthoritative ==
  rosterPc = "done" =>
    LET kept == {rosterScanners[i] : i \in 1..Len(rosterScanners)}
        all == {rosterBuilt[i] : i \in 1..Len(rosterBuilt)}
    IN  IF Len(scannersCfg.Enable) > 0
          THEN kept = {n \in all : ToLower(n) \in LowerNames(scannersCfg.Enable)}
          ELSE kept = {n \in all : ToLower(n) \notin LowerNames(scannersCfg.Disable)}

\* C20: before the enable and disable lists are applied, the roster holds
\* the rules scanner exactly when rule loading returned at least one rule
\* whose definition is enabled; it does not when every loaded rule is
\* disabled in its definition, when no rule is loaded, or when loading
\* fails.
C20_RulesScannerIffEnabledRule ==
  rosterPc \in {"filter", "done"} =>
    (InSeq(RulesScanner, rosterBuilt)
       <=> /\ ~customRules.failed
           /\ \E i \in 1..Len(customRules.rules) : customRules.rules[i].Enabled)


(***************************************************************************)
(* The provider's temporary directory                                      *)
(***************************************************************************)
\* C21: a temporary directory the git provider created is gone when Run has
\* returned (removed inside Acquire when the clone failed, by the deferred
\* Cleanup otherwise), and it is in place for as long as a run that
\* acquired it has not returned.
C21_TempDirRemovedAtExit ==
  /\ pc = "done" => tempDir # "exists"
  /\ (IsGitURL(target) /\ acquired = "ok" /\ pc # "done") => tempDir = "exists"
  /\ tempDir = "removed" => pc = "done"

\* C21 witness: a run on a cloned repository went through the Report stage
\* and returned nil, and its directory is removed
C21_Witness ==
  /\ IsGitURL(target)
  /\ acquired = "ok"
  /\ pc = "done"
  /\ result = "nil"
  /\ report.built
  /\ tempDir = "removed"


\* C22: the clone is made with no depth limit when the configured depth is
\* 0, with depth d when it is a positive d, and with depth 1 when it is
\* negative.
C22_DepthMapsToClone ==
  gitPc \in {"clone", "Cleanup", "done"} /\ gitArgs # <<>> =>
    gitArgs = CloneArgs(IF gitDepthCfg < 0 THEN 1 ELSE gitDepthCfg,
                        GitRepoURL, GitTmpDir)


(***************************************************************************)
(* The reporters                                                           *)
(***************************************************************************)
\* C23: whatever output.formats holds, the reporters built hold the JSON
\* reporter exactly once, and when the loop over them has ended Generate
\* has been called on it, exactly once.
C23_JsonAlwaysGenerated ==
  /\ repPc \in {"Generate", "done"} =>
       Cardinality({i \in 1..Len(repReporters) : repReporters[i] = "json"}) = 1
  /\ repPc = "done" =>
       Cardinality({i \in 1..Len(repGenerated) : repGenerated[i].format = "json"}) = 1

\* C23 witness: the formats name "terminal" and an unknown format only, and
\* the JSON reporter's Generate was called
C23_Witness ==
  /\ repPc = "done"
  /\ \A i \in 1..Len(repFormats) : repFormats[i] \in {"terminal", "xml"}
  /\ Len(repFormats) > 0
  /\ \E i \in 1..Len(repGenerated) : repGenerated[i].format = "json"


(***************************************************************************)
(* The baseline a run saves                                                *)
(***************************************************************************)
\* C24: the baseline a run has written has one entry per finding of the
\* final report, in report order, with that finding's fingerprint, id, file
\* and line; a finding the scanners gave that is not in the report (none of
\* the report's findings has its id, file and line) has no entry.
C24_SavedBaselineIsFinalReport ==
  baselineFile.exists =>
    /\ Len(baselineFile.entries) = Len(report.Findings)
    /\ \A i \in 1..Len(report.Findings) :
         /\ baselineFile.entries[i].fingerprint = Fingerprint(report.Findings[i])
         /\ baselineFile.entries[i] = EntryOf(report.Findings[i])
    /\ \A k \in 1..Len(scanned) :
         (\A i \in 1..Len(report.Findings) :
            ~SameTriple(scanned[k], report.Findings[i]))
         => \A j \in 1..Len(baselineFile.entries) :
              ~ /\ baselineFile.entries[j].id = scanned[k].ID
                /\ baselineFile.entries[j].file = scanned[k].File
                /\ baselineFile.entries[j].line = scanned[k].Line

\* C24 witness: a baseline was written by a run in which the scanners gave
\* two different findings and filtering left one of them
C24_Witness ==
  /\ baselineFile.exists
  /\ Len(deduplicate(scanned)) = 2
  /\ Len(report.Findings) = 1
  /\ Len(baselineFile.entries) = 1


(***************************************************************************)
(* The scan history                                                        *)
(***************************************************************************)
\* the stored records of the project of the report under way
SameProject ==
  {store[i] : i \in {j \in 1..Len(store) : store[j].ProjectPath = stReport.RootPath}}

AtOrAboveFailOn ==
  /\ failOn # <<>>
  /\ \E i \in 1..Len(cmdFindings) : cmdFindings[i] >= ParseSeverity(failOn)

\* the scan is completed: ScanCompleted has reached whoever watches (the TUI
\* in interactive mode), or Run has returned nil
ScanIsCompleted ==
  \/ cmdMode = "tui" /\ delivered
  \/ orchPc = "returned" /\ ~runErr

\* C26: when the command exits after a completed scan, it exits with code 1
\* because of findings exactly when the final report holds a finding at or
\* above the --fail-on threshold, and with code 0 otherwise, in headless
\* and in interactive mode alike.
C26_ExitCodeFollowsFailOn ==
  (cmdPc = "exited" /\ ScanIsCompleted) =>
    /\ (exitCode = 1 /\ exitWhy = "findings") <=> AtOrAboveFailOn
    /\ ~AtOrAboveFailOn => exitCode = 0


(***************************************************************************)
(* The rules scanner                                                       *)
(***************************************************************************)
\* the paths of the project that exist
ScannedFiles == {i \in 1..Len(EnvFilePaths) : rsProject[i].exists}

\* the pattern occurs in a line of the file
OccursIn(pat, i) ==
  \E k \in 1..Len(rsProject[i].lines) :
    Contains(rsProject[i].lines[k], pat.Pattern)

WithoutInvalid(rule) ==
  [rule EXCEPT !.Patterns =
     SelectSeq(rule.Patterns,
               LAMBDA pt : ~(pt.Type = "regex" /\ ~Compiles(pt.Pattern)))]

\* the findings Scan gives for rules, computed at once
RECURSIVE ScanOf(_, _)
ScanOf(rules, project) ==
  IF Len(rules) = 0 THEN <<>>
  ELSE (IF Head(rules).Enabled
          THEN Flatten(evaluateRule(Head(rules), project)) ELSE <<>>)
         \o ScanOf(Tail(rules), project)

\* C28: a regex pattern that does not compile gives no finding, and when
\* Scan has returned, it returned a nil error and the findings the same
\* rules give without those patterns, all of them emitted.
C28_InvalidRegexSkipped ==
  /\ \A e \in 1..Len(rsLog) :
       (rsLog[e].pattern.Type = "regex" /\ ~Compiles(rsLog[e].pattern.Pattern))
       => rsLog[e].findings = <<>>
  /\ rsPc = "done" =>
       /\ rsResult.returned
       /\ rsResult.err = ""
       /\ rsResult.findings =
            ScanOf([r \in 1..Len(rsRules) |-> WithoutInvalid(rsRules[r])], rsProject)
       /\ rsEmitted = rsResult.findings

\* C28 witness: Scan has returned; the first rule had a regex that does not
\* compile followed by a pattern that gave a finding, and the second rule
\* gave a finding too
C28_Witness ==
  /\ rsPc = "done"
  /\ Len(rsLog) = 3
  /\ rsLog[1].pattern.Type = "regex"
  /\ ~Compiles(rsLog[1].pattern.Pattern)
  /\ Len(rsLog[2].findings) > 0
  /\ Len(rsLog[3].findings) > 0


(***************************************************************************)
(* The project context after the Resolvers stage                           *)
(***************************************************************************)
\* C29: once ContextResolved is published no step of the run changes the
\* project context, and a report that is built embeds that context, whose
\* package count is the one ContextResolved announced.
C29_ContextFrozenAfterResolvers ==
  [][/\ Positions({"ContextResolved"}) # {} => projectCtx' = projectCtx
     /\ report'.built =>
          /\ report'.ProjectContext = projectCtx'
          /\ \A i \in Positions({"ContextResolved"})' :
               events'[i].count
                 = Cardinality(report'.ProjectContext.InstalledPackages)]_vars

\* C29 witness: both resolvers filled the context, a scanner ran and gave a
\* finding, the baseline was written, and Run returned with the report
C29_Witness ==
  /\ pc = "done"
  /\ result = "nil"
  /\ report.built
  /\ projectCtx.ProjectName = "app"
  /\ projectCtx.InstalledPackages # {}
  /\ report.ProjectContext = projectCtx
  /\ Len(report.ScannersRun) > 0
  /\ Len(report.Findings) > 0


(***************************************************************************)
(* The env scanner's check of .env.example                                 *)
(***************************************************************************)
\* a value of the form your_*_here
IsYourHere(val) ==
  /\ Len(val) >= Len(<<"y","o","u","r","_">>) + Len(<<"_","h","e","r","e">>)
  /\ HasPrefix(val, <<"y","o","u","r","_">>)
  /\ HasSuffix(val, <<"_","h","e","r","e">>)

\* the placeholders: null, secret, password, changeme and your_*_here
IsPlaceholder(val) ==
  \/ ToLower(val) \in {<<"n","u","l","l">>, <<"s","e","c","r","e","t">>, <<"p","a","s","s","w","o","r","d">>, <<"c","h","a","n","g","e","m","e">>}
  \/ IsYourHere(ToLower(val))

\* C30: when checkEnvExample has returned from a readable .env.example, it
\* gave ENV-008 for a sensitive key exactly when the key's value is longer
\* than six characters and is not a placeholder.
C30_Env008IffRealLooking ==
  (exPc = "done" /\ exFile.readable) =>
    \A i \in 1..Len(sensitiveKeys) :
      LET key == sensitiveKeys[i]
      IN  (\E n \in 1..Len(exFindings) : exFindings[n].Title = key)
            <=> /\ key \in DOMAIN exVars
                /\ Len(exVars[key]) > 6
                /\ ~IsPlaceholder(exVars[key])


(***************************************************************************)
(* Handlers that call the bus                                              *)
(***************************************************************************)
\* C31: a goroutine whose handler, called by Publish, has called Subscribe,
\* SubscribeAll or Close stays in that call for ever: it keeps the read
\* lock of its Publish, waits for the write lock, and takes no other step,
\* so its Publish does not return.
C31_HandlerCallingBusNeverReturns ==
  [][\A g \in Goroutines :
       busGo[g].ret # "" =>
         /\ busGo'[g] = busGo[g]
         /\ busGo[g].pc = "Lock"
         /\ busGo[g].op = "Publish"
         /\ g \in muReaders /\ g \in muReaders'
         /\ g \in muPending /\ g \in muPending']_vars

\* C31 witness: a handler called by the Publish of goroutine 1 has called
\* Close; goroutine 1 waits for the write lock under its own read lock,
\* and goroutine 2 has since called Publish and waits for the read lock
C31_Witness ==
  /\ busGo[1].ret # ""
  /\ busGo[1].inner = "Close"
  /\ busGo[1].pc = "Lock"
  /\ 1 \in muReaders
  /\ busGo[2].pc = "RLock"
  /\ ~closed


(***************************************************************************)
(* What a scanner streams and what it returns                              *)
(***************************************************************************)
\* the position of the ScannerStarted that opens the scan closed at j
StartOf(j) ==
  CHOOSE i \in Positions({"ScannerStarted"}) :
    /\ i < j
    /\ \A k \in Positions({"ScannerStarted"}) : k < j => k <= i

\* the findings of the FindingDiscovered events at positions from..to
RECURSIVE StreamedIn(_, _)
StreamedIn(from, to) ==
  IF from > to THEN <<>>
  ELSE (IF events[from].type = "FindingDiscovered"
          THEN <<events[from].finding>> ELSE <<>>)
         \o StreamedIn(from + 1, to)

\* the findings streamed by the scanners that completed, scan after scan
RECURSIVE StreamedByCompleted(_)
StreamedByCompleted(j) ==
  IF j = 0 THEN <<>>
  ELSE StreamedByCompleted(j - 1)
         \o (IF events[j].type = "ScannerCompleted"
               THEN StreamedIn(StartOf(j), j) ELSE <<>>)

\* C32: the FindingDiscovered events between the ScannerStarted and the
\* ScannerCompleted of a scanner carry the findings it returned, in order
\* and with repetitions, and ScannerCompleted counts them; the findings
\* Run has aggregated are those events' findings, scan after scan, and
\* while a Scan runs what it has appended is what it has streamed.
C32_StreamedFindingsAreReturned ==
  /\ \A j \in Positions({"ScannerCompleted"}) :
       /\ events[StartOf(j)].name = events[j].name
       /\ events[j].count = Len(StreamedIn(StartOf(j), j))
  /\ pc \notin {"start", "Acquire", "Resolve"} /\ acquired = "ok" =>
       scanned = StreamedByCompleted(Len(events))
  /\ pc \in {"Scan", "Detail"} =>
       found = StreamedIn(StartOf(Len(events) + 1), Len(events))

\* C32 witness: a scanner streamed the same finding twice and completed
\* with a count of 2, and Run has returned
C32_Witness ==
  /\ pc = "done"
  /\ result = "nil"
  /\ \E j \in Positions({"ScannerCompleted"}) :
       /\ events[j].count = 2
       /\ LET fs == StreamedIn(StartOf(j), j)
          IN  Len(fs) = 2 /\ fs[1] = fs[2]
  /\ Len(scanned) = 2


(***************************************************************************)
(* The batch probe of the dependency scanner                               *)
(***************************************************************************)
\* the packages of the requests from position i on, appended
RECURSIVE QueriedFrom(_, _)
QueriedFrom(reqs, i) ==
  IF i > Len(reqs) THEN <<>> ELSE reqs[i].packages \o QueriedFrom(reqs, i + 1)

\* the packages of the batch answers from position i on whose result, at
\* their own position in their batch, has advisories
RECURSIVE MarkedFrom(_, _)
MarkedFrom(reqs, i) ==
  IF i > Len(reqs) THEN <<>>
  ELSE SelectSeq(reqs[i].packages,
                 LAMBDA vp : \E j \in 1..Len(reqs[i].packages) :
                   /\ reqs[i].packages[j] = vp
                   /\ j <= Len(reqs[i].vulns)
                   /\ reqs[i].vulns[j])
         \o MarkedFrom(reqs, i + 1)

\* the installed packages whose version normalizes to a non-empty one
Queryable ==
  {p \in projectCtx.InstalledPackages : normalizeVersion(InstalledVersion[p]) # <<>>}

C34_OneScanFailedUnderTui ==
  (cmdMode = "tui" /\ orchPc = "returned") =>
    Len(SelectSeq(cmdTerminal, LAMBDA t : t = "ScanFailed"))
      = IF runErr THEN 1 ELSE 0


(***************************************************************************)
(* The disable list                                                        *)
(***************************************************************************)
\* whether the name is in cfg.Scanners.Disable, ignoring case
DisabledName(name) ==
  \E i \in 1..Len(cfg.Disable) : ToLower(cfg.Disable[i]) = ToLower(name)

\* C35: a scanner named in scanners.disable, in any case, is not in the
\* roster and no scanner event carries its name; ScannerSkipped is never
\* published; when a run whose provider succeeded has returned, it has
\* published as many ScannerStarted events as ScanStarted counts scanners.
C35_DisabledScannerLeavesNoTrace ==
  /\ \A i \in 1..Len(scanners) : ~DisabledName(scanners[i])
  /\ \A i \in Positions({"ScannerRegistered", "ScannerStarted", "ScannerSkipped",
                         "ScannerCompleted", "ScannerFailed"}) :
       ~DisabledName(events[i].name)
  /\ Positions({"ScannerSkipped"}) = {}
  /\ (pc = "done" /\ acquired = "ok") =>
       \A i \in Positions({"ScanStarted"}) :
         events[i].count = Cardinality(Positions({"ScannerStarted"}))

\* C35 witness: the disable list names the env scanner in another case; the
\* run returned nil after the config and dependency scanners ran
C35_Witness ==
  /\ cfg.Disable = << <<"E","N","V","-","S","c","a","n","n","e","r">> >>
  /\ pc = "done"
  /\ result = "nil"
  /\ EnvScanner \notin Elems(scanners)
  /\ Cardinality(Positions({"ScannerStarted"})) >= 2
  /\ \E i \in Positions({"ScanStarted"}) : events[i].count >= 2

\* C36 (as claimed): with no minimum severity and no baseline, a finding the
\* scanners returned is missing from the report only if an earlier finding
\* has the same ID, the same File and the same Line; IDs and files may
\* contain '|'.
C36_RemovedOnlyForEqualTriple ==
  (result = "nil" /\ ~baseline.attached /\ ConfiguredMinimum = 0) =>
    \A k \in 1..Len(scanned) :
      (\A j \in 1..(k - 1) : ~SameTriple(scanned[j], scanned[k]))
        => InSeq(scanned[k], LastEvent.report.Findings)

\* C37 (as claimed): with minimum severity Info and no baseline, when the
\* run has returned, every package whose detail request was answered with
\* at least one advisory has a finding about it (its name in the title) in
\* the report, also when two packages were answered with the same CVE alias.
C37_EveryVulnerablePackageReported ==
  (result = "nil" /\ ~baseline.attached /\ ConfiguredMinimum = 0) =>
    \A i \in 1..Len(depRequests) :
      (/\ depRequests[i].kind = "detail"
       /\ depRequests[i].failure = ""
       /\ Len(depRequests[i].vulns) >= 1)
        => \E k \in 1..Len(LastEvent.report.Findings) :
             /\ LastEvent.report.Findings[k].Scanner = DependencyScanner
             /\ LastEvent.report.Findings[k].Title[4] = depRequests[i].packages[1].name

\* C38 (as claimed): when the first scan has saved its baseline to P and the
\* second scan, whose scanners return the same findings, has run with the
\* baseline loaded from P, the second report holds no findings, whatever
\* baseline the first scan had attached.
C38_SecondScanReportsNothing ==
  twPc = "done" => twReportB = <<>>

\* C38 (amended): the second report holds exactly the findings the baseline
\* of the first scan suppressed, in order: the file the first scan writes
\* has its reported findings only.  It is empty when the first scan had no
\* baseline attached or its baseline suppressed nothing.
C38_SecondScanReportsTheSuppressed ==
  twPc = "done" =>
    /\ twReportB =
         SelectSeq(filterBySeverity(deduplicate(twScanned), ParseSeverity(twSeverity)),
                   LAMBDA f : \E i \in 1..Len(twBaselineA.Entries) :
                                twBaselineA.Entries[i].fingerprint = Fingerprint(f))
    /\ ~twBaselineA.attached => twReportB = <<>>
    /\ Len(twReportA) + Len(twReportB) =
         Len(filterBySeverity(deduplicate(twScanned), ParseSeverity(twSeverity)))

\* C38 witness: the first scan had the baseline stored at P attached, which
\* suppressed one of its two findings; it saved the other one to P, and the
\* second scan reports the one that was suppressed
C38_Witness ==
  /\ twPc = "done"
  /\ twFlag = "P"
  /\ Len(twScanned) = 2
  /\ Len(twReportA) = 1
  /\ Len(twFile.entries) = 1
  /\ Len(twReportB) = 1
  /\ twReportB # twReportA

\* C39: CompareLast returns before Save writes the record of the scan under
\* way: the step that compares leaves the store as the earlier scans left
\* it, its diff, when there is one, is the diff with a record of the store
\* as it was, a project with no record there gets no diff and no line, and
\* the line is logged exactly when the diff has a new or a resolved key; the
\* store changes only in the step from Save.
C39_CompareBeforeSave ==
  [][ /\ (stPc = "CompareLast" /\ stPc' = "Save") =>
           /\ store' = store
           /\ SameProject = {} => (stDiff'.nil /\ ~stLogged')
           /\ ~stDiff'.nil => \E r \in SameProject : stDiff' = DiffWith(r, stReport)
           /\ stLogged' <=>
                (/\ ~stDiff'.nil
                 /\ Len(stDiff'.NewFindings) + Len(stDiff'.ResolvedFindings) >= 1)
      /\ store' # store => (stPc = "Save" /\ stPc' = "report") ]_vars

\* C39 witness: the scan under way has been compared with the record of an
\* earlier scan of its project, the line was logged, and its own record is
\* not in the store yet
C39_Witness ==
  /\ stPc = "Save"
  /\ stLogged
  /\ SameProject # {}
  /\ RecordOf(stReport) \notin Elems(store)
  /\ \E r \in SameProject : stDiff = DiffWith(r, stReport)

\* C40 (as claimed): a Save that succeeds adds one record to the store and
\* leaves every earlier record in it, also for two scans that complete in
\* the same second and for projects whose sanitized names agree in their
\* first 40 characters.
C40_SaveAddsARecord ==
  [][ (stPc = "Save" /\ store' # store) =>
        /\ Len(store') = Len(store) + 1
        /\ \A i \in 1..Len(store) : InSeq(store[i], store') ]_vars

====
